---- MODULE Spec2Model ----
(***************************************************************************)
(* A model of the distributed key-value store: the LSM storage engine      *)
(* (write-ahead log, memtable, sorted tables, flush, recovery), the Raft   *)
(* election core, and the quorum coordinator (put/get/delete, last-write-  *)
(* wins, read repair, hinted handoff).                                     *)
(*                                                                         *)
(* Each subsystem has its own specification over the shared variable list; *)
(* a specification leaves the variables of the other subsystems at their   *)
(* initial values.                                                         *)
(***************************************************************************)
EXTENDS Integers, Sequences, FiniteSets, TLC

VARIABLES
    \* ---- LSM engine (storage/lsm_store.go) ----
    memTable,        \* LSMStore.memTable: [data, size]
    immutableTable,  \* LSMStore.immutableTable: a memtable or NoTable
    sstables,        \* LSMStore.sstables: sequence of open tables, newest first
    wal,             \* content of wal.log: sequence of entries
    files,           \* sstable_<id>.db files of the data directory: id -> content or NoFile
    nextTableID,     \* LSMStore.nextTableID
    flushMu,         \* the set of threads holding LSMStore.flushMu (empty or one thread)
    phase,           \* "open" or "closed" (between Close and NewLSMStore)
    pc,              \* per client thread: position inside Put/Delete/maybeFlush
    opEntry,         \* per client thread: the WAL entry of the running Put/Delete
    tableToFlush,    \* per client thread: maybeFlush's local tableToFlush
    tableID,         \* per client thread: maybeFlush's local tableID
    lastGet,         \* result of the last LSMStore.Get since the last mutation
    expect,          \* history: per key the value of the last put, or NONE after a delete
    reopened,        \* history: TRUE from NewLSMStore on an existing directory until the next mutation
    compaction,      \* the running CompactionManager.compact call, or NoCompaction
    reading,         \* the LSMStore.Get of the reader thread between its snapshot and its file reads, or NoRead
    finalized,       \* history: the table ids whose file was finalized
    flushErr,        \* history: memtable and WAL before the latest flush attempt, and whether it failed
    cm,              \* CompactionManager: stats, and caller and MergeStats of the running compaction
    \* ---- Raft election core (raft/election.go, raft/raft_core.go) ----
    peers,           \* RaftNode.peers, per node of the cluster
    currentTerm,     \* RaftNode.currentTerm
    votedFor,        \* RaftNode.votedFor ("" when the node has not voted)
    log,             \* RaftNode.log: per node the sequence of entry terms (index 0 first)
    state,           \* RaftNode.state
    election,        \* per node: the running startElection call, or NoElection
    voteReqs,        \* RequestVote requests in flight
    voteResps,       \* RequestVote responses in flight
    appendReqs,      \* AppendEntries (heartbeat) requests in flight
    appendResps,     \* AppendEntries responses in flight that carry a higher term
    started,         \* history: set of <<node, term>> candidacies begun by startElection
    leaders,         \* history: set of <<node, term>> that entered the Leader state
    votes,           \* history: the RequestVote requests that were granted
    timers,          \* per node: election timer as seen by the event loop, heartbeat timer running
    down,            \* the nodes that were shut down
    \* ---- Cluster coordinator (cluster/cluster_client.go) ----
    replica,         \* per replica node: what it stores for the key
    clock,           \* the coordinator's clock (GenerateTimestamp)
    hints,           \* HintedHandoff.hints: per target node a sequence of hints
    repairs,         \* read-repair ReplicaPut calls in flight
    lastOp,          \* the coordinator call that has just returned and its outcome, or NoOp
    lastWrite,       \* history: the last coordinator Put or Delete and whether it succeeded
    \* ---- pure replication functions (replication/hinted_handoff.go) ----
    responses,       \* input list of replica responses
    latest,          \* result of ResolveConflict(responses), or NoResponse
    got,             \* result of the Get steps that follow the collection of responses
    \* ---- consistent hash ring (cluster/hash_ring.go) ----
    virtualNodes,    \* HashRing.virtualNodes
    ring,            \* HashRing.ring: position -> node id ("" where the map has no entry)
    sortedHashes,    \* HashRing.sortedHashes: sequence of positions
    nodes,           \* HashRing.nodes: the physical nodes of the ring
    vnodeHash,       \* hashKey of the virtual-node keys: <<node id, i>> -> position
    lastCall,        \* the HashRing call that has just returned and its outcome, or NoCall
    prior,           \* history: ring state before the last AddNode of a new node, or NoPrior
    \* ---- sorted-table file format (storage/sstable.go, storage/bloom_filter.go) ----
    sstEntries,      \* input: the <<key, value>> pairs handed to SSTableWriter.Write, in order
    sstFile,         \* the bytes of the finalized file, or NoFile
    sstReader,       \* the SSTable returned by OpenSSTable, or NoTable
    sstGot,          \* the last SSTable.Get call and its result, or NoGet
    \* ---- write-ahead log file (WAL: Write, ReadAll, Reset) ----
    walFile,         \* the bytes of wal.log
    walLog,          \* history: the entries written without error since the last Reset
    walRead,         \* the result of the last ReadAll, or NoGet
    walResets,       \* history: the number of Reset calls and the entries they cut off
    \* ---- hinted handoff store (replication/hinted_handoff.go) ----
    hhHints,         \* HintedHandoff.hints: per target node a sequence of hints
    hintFiles,       \* hints_<node>.json per target node: [hints |-> the list written], NoFile or CorruptFile
    hhMax,           \* HintedHandoff.maxHints
    hhLast           \* the HintedHandoff call that has just returned and its outcome, or NoCall

lsmVars   == <<memTable, immutableTable, sstables, wal, files, nextTableID, flushMu,
               phase, pc, opEntry, tableToFlush, tableID, lastGet, expect, reopened>>
raftVars  == <<peers, currentTerm, votedFor, log, state, election, voteReqs, voteResps,
               appendReqs, appendResps, started, leaders, votes, timers, down>>
coordVars == <<replica, clock, hints, repairs, lastOp, lastWrite>>
lsmxVars  == <<compaction, reading, finalized, flushErr>>
pureVars  == <<responses, latest, got>>
ringVars  == <<virtualNodes, ring, sortedHashes, nodes, vnodeHash, lastCall, prior>>
sstVars   == <<sstEntries, sstFile, sstReader, sstGot>>
walVars   == <<walFile, walLog, walRead, walResets>>
hintVars  == <<hhHints, hintFiles, hhMax, hhLast>>
fileVars  == <<sstVars, walVars, hintVars>>
statVars  == <<cm>>
vars      == <<lsmVars, lsmxVars, raftVars, coordVars, pureVars, ringVars, fileVars,
               statVars>>

(***************************************************************************)
(* Bounds of the model.                                                    *)
(***************************************************************************)
MaxTables   == 2    \* no new Put/Delete is started once this many table ids are used
MaxWAL      == 3    \* no new Put/Delete is started while the WAL holds this many entries
MaxElections == 3   \* three nodes: no election is started once this many have been started
MaxCandidates == 2  \* four nodes: no election is started once this many have been started
MaxSplit    == 2    \* fair elections: candidacies that may overlap with other elections
MaxSolo     == 1    \* fair elections: further candidacies, each started while no election runs
MaxNodes    == 3    \* clusters of 1..MaxNodes nodes when the cluster size is left open
MaxTerm     == 2    \* RequestVote handler alone: terms of the log entries and of the node
MaxLogIndex == 2    \* RequestVote handler alone: last index of the node's and the candidates' logs
MaxVotes    == 2    \* RequestVote handler alone: no request arrives once this many were granted
MaxPuts     == 1    \* coordinator Puts while every failure kind and arrival order is tried
MaxClock    == 3    \* coordinator Puts while read-repair writes are delivered at any time
MaxStamp    == 2    \* timestamps and versions of the input responses are 1..MaxStamp
MaxPosition == 4    \* hash ring: positions (values of hashKey) are 1..MaxPosition
MaxVirtualNodes == 2 \* hash ring: NewHashRing is called with 1..MaxVirtualNodes virtual nodes
MaxHashes   == 4    \* hash ring: no node is added that would make sortedHashes longer than this
MaxWanted   == 3    \* hash ring: GetPreferenceList is asked for 0..MaxWanted nodes
MaxKeyLen   == 2    \* sorted-table file: keys are strings of 0..MaxKeyLen bytes
MaxEntries  == 3    \* sorted-table file: a writer is handed 0..MaxEntries entries
BloomBits   == 13   \* sorted-table file: bits of a table's Bloom filter (the writer's estimate gives 95,851)
MaxRecords  == 2    \* WAL file: no record is written once the WAL holds this many since the last Reset
MaxResets   == 1    \* WAL file: Reset is called at most this many times
MaxHintCap  == 2    \* hinted handoff: HintedHandoff.maxHints is set to 1..MaxHintCap

(***************************************************************************)
(*                           LSM STORAGE ENGINE                            *)
(***************************************************************************)
Keys      == {"a", "b"}          \* one-byte keys
Values    == {"x", "y"}          \* one-byte user values
LongValue == "zzzzzzzzzzzzzzzzzzzzz" \* a user value of 21 bytes
TOMBSTONE == "__TOMBSTONE__"     \* MemTable.tombstone
NONE      == "<none>"            \* no entry / not found
NoTable   == [none |-> TRUE]
NoFile    == [nofile |-> TRUE]
NoGet     == [none |-> TRUE]
NoEntry   == [none |-> TRUE]
NoCompaction == [pc |-> "idle"]
NoRead    == [pc |-> "none"]
NoFlushErr == [failed |-> FALSE]
IOERROR   == "<io error>"        \* a call that returned an I/O error
Threads   == {"w1", "w2"}        \* client threads calling the engine
TableIDs  == 0..(MaxTables + 1)
Idle      == \A t \in Threads : pc[t] = "idle"

\* The flush threshold, scaled down from 64 MiB to the sizes of the model's
\* one-byte keys and values.
MemTableSizeThreshold == 30

\* len(key), len(value) in bytes
KeyLen(k) == 1
ValLen(v) == IF v = TOMBSTONE THEN 13 ELSE IF v = LongValue THEN 21 ELSE 1

OpPut    == 1
OpDelete == 2

NewMemTable == [data |-> [k \in Keys |-> NONE], size |-> 0]

\* MemTable.Put: replace an existing value, or insert a new node
MemTablePut(m, k, v) ==
    IF m.data[k] /= NONE
    THEN [data |-> [m.data EXCEPT ![k] = v],
          size |-> m.size - ValLen(m.data[k]) + ValLen(v)]
    ELSE [data |-> [m.data EXCEPT ![k] = v],
          size |-> m.size + KeyLen(k) + ValLen(v) + 8]

\* MemTable.Delete
MemTableDelete(m, k) == MemTablePut(m, k, TOMBSTONE)

\* MemTable.Get: (value, found); a tombstone is reported as not found
MemTableGet(m, k) ==
    IF m.data[k] /= NONE /\ m.data[k] /= TOMBSTONE
    THEN [value |-> m.data[k], found |-> TRUE]
    ELSE [value |-> NONE, found |-> FALSE]

\* MemTable.Iterator: all entries, tombstones included
MemTableIterator(m) == m.data

\* OpenSSTable: the in-memory table object holds the file's id and its index
OpenSSTable(id, content) == [id |-> id, index |-> {k \in Keys : content[k] /= NONE}]

\* SSTable.Get: (value, found, err) by index lookup, then os.Open of the file
\* and a read at the entry's offset
SSTableGet(sst, k) ==
    IF k \notin sst.index THEN [value |-> NONE, found |-> FALSE, err |-> FALSE]
    ELSE IF files[sst.id] = NoFile THEN [value |-> NONE, found |-> FALSE, err |-> TRUE]
    ELSE [value |-> files[sst.id][k], found |-> TRUE, err |-> FALSE]

\* the loop over the sorted tables in LSMStore.Get, from position i
RECURSIVE GetFromSSTables(_, _, _)
GetFromSSTables(tables, i, k) ==
    IF i > Len(tables) THEN NONE
    ELSE LET r == SSTableGet(tables[i], k) IN
         IF r.err THEN IOERROR
         ELSE IF r.found
         THEN (IF r.value = TOMBSTONE THEN NONE ELSE r.value)
         ELSE GetFromSSTables(tables, i + 1, k)

\* LSMStore.Get: the value, or NONE for ErrKeyNotFound
LSMGet(k) ==
    LET m == MemTableGet(memTable, k) IN
    IF m.found THEN m.value
    ELSE LET im == IF immutableTable /= NoTable
                   THEN MemTableGet(immutableTable, k)
                   ELSE [value |-> NONE, found |-> FALSE] IN
         IF im.found THEN im.value
         ELSE GetFromSSTables(sstables, 1, k)

\* Entry of the write-ahead log (WAL.Write frames Op, Key, Value)
PutEntry(k, v) == [Op |-> OpPut, Key |-> k, Value |-> v]
DeleteEntry(k) == [Op |-> OpDelete, Key |-> k, Value |-> ""]

\* LSMStore.Put / LSMStore.Delete, first half: wal.Write(entry)
WriteWAL(t, e) ==
    /\ phase = "open"
    /\ pc[t] = "idle"
    /\ nextTableID < MaxTables
    /\ Len(wal) < MaxWAL
    /\ wal' = Append(wal, e)
    /\ opEntry' = [opEntry EXCEPT ![t] = e]
    /\ pc' = [pc EXCEPT ![t] = "mem"]
    /\ lastGet' = NoGet
    /\ reopened' = FALSE
    /\ UNCHANGED <<memTable, immutableTable, sstables, files, nextTableID, flushMu,
                   phase, tableToFlush, tableID, expect>>

PutWAL(t) == \E k \in Keys, v \in Values : WriteWAL(t, PutEntry(k, v))

DeleteWAL(t) == \E k \in Keys : WriteWAL(t, DeleteEntry(k))

\* the memtable after applying one WAL entry (Put/Delete second half, and recover)
ApplyEntry(m, e) ==
    IF e.Op = OpPut THEN MemTablePut(m, e.Key, e.Value)
    ELSE IF e.Op = OpDelete THEN MemTableDelete(m, e.Key)
    ELSE m

\* LSMStore.Put / LSMStore.Delete, second half: memTable.Put under s.mu, then
\* the size check that decides whether maybeFlush is called
MemApply(t) ==
    /\ pc[t] = "mem"
    /\ LET e == opEntry[t]
           m == ApplyEntry(memTable, e) IN
       /\ memTable' = m
       /\ expect' = [expect EXCEPT ![e.Key] = IF e.Op = OpPut THEN e.Value ELSE NONE]
       /\ pc' = [pc EXCEPT ![t] = IF m.size >= MemTableSizeThreshold THEN "flush" ELSE "idle"]
    /\ opEntry' = [opEntry EXCEPT ![t] = NoEntry]
    /\ lastGet' = NoGet
    /\ UNCHANGED <<immutableTable, sstables, wal, files, nextTableID, flushMu,
                   phase, tableToFlush, tableID, reopened>>

\* maybeFlush that replaces the memtable without keeping it as the immutable table
FlushBeginUnsealed(t) ==
    /\ pc[t] = "flush"
    /\ flushMu = {}
    /\ IF memTable.size < MemTableSizeThreshold
       THEN /\ pc' = [pc EXCEPT ![t] = "idle"]
            /\ UNCHANGED <<memTable, immutableTable, nextTableID, flushMu,
                           tableToFlush, tableID>>
       ELSE /\ immutableTable' = immutableTable
            /\ memTable' = NewMemTable
            /\ tableToFlush' = [tableToFlush EXCEPT ![t] = memTable]
            /\ tableID' = [tableID EXCEPT ![t] = nextTableID]
            /\ nextTableID' = nextTableID + 1
            /\ flushMu' = {t}
            /\ pc' = [pc EXCEPT ![t] = "flushIO"]
    /\ UNCHANGED <<sstables, wal, files, phase, opEntry, lastGet, expect, reopened>>

\* maybeFlush, lines 166-185: take flushMu, re-check the size, seal the memtable
FlushBegin(t) ==
    /\ pc[t] = "flush"
    /\ flushMu = {}
    /\ IF memTable.size < MemTableSizeThreshold
       THEN /\ pc' = [pc EXCEPT ![t] = "idle"]
            /\ UNCHANGED <<memTable, immutableTable, nextTableID, flushMu,
                           tableToFlush, tableID>>
       ELSE /\ immutableTable' = memTable
            /\ memTable' = NewMemTable
            /\ tableToFlush' = [tableToFlush EXCEPT ![t] = memTable]
            /\ tableID' = [tableID EXCEPT ![t] = nextTableID]
            /\ nextTableID' = nextTableID + 1
            /\ flushMu' = {t}
            /\ pc' = [pc EXCEPT ![t] = "flushIO"]
    /\ UNCHANGED <<sstables, wal, files, phase, opEntry, lastGet, expect, reopened>>

\* flushToDisk: write and finalize sstable_<tableID>.db, open it, put it at the
\* front of the list
FlushToDisk(t) ==
    /\ pc[t] = "flushIO"
    /\ LET content == MemTableIterator(tableToFlush[t]) IN
       /\ files' = [files EXCEPT ![tableID[t]] = content]
       /\ sstables' = <<OpenSSTable(tableID[t], content)>> \o sstables
    /\ pc' = [pc EXCEPT ![t] = "flushClear"]
    /\ UNCHANGED <<memTable, immutableTable, wal, nextTableID, flushMu, phase, opEntry,
                   tableToFlush, tableID, lastGet, expect, reopened>>

\* maybeFlush, lines 192-195: clear the immutable table
FlushClear(t) ==
    /\ pc[t] = "flushClear"
    /\ immutableTable' = NoTable
    /\ pc' = [pc EXCEPT ![t] = "flushReset"]
    /\ UNCHANGED <<memTable, sstables, wal, files, nextTableID, flushMu, phase, opEntry,
                   tableToFlush, tableID, lastGet, expect, reopened>>

\* WAL.Reset that leaves the file as it is
WALResetKeep(w) == w

\* WAL.Reset: truncate wal.log
WALReset(w) == <<>>

\* maybeFlush, lines 197-201: reset the WAL, release flushMu
FlushReset(t) ==
    /\ pc[t] = "flushReset"
    /\ wal' = WALReset(wal)
    /\ flushMu' = {}
    /\ pc' = [pc EXCEPT ![t] = "idle"]
    /\ tableToFlush' = [tableToFlush EXCEPT ![t] = NoTable]
    /\ tableID' = [tableID EXCEPT ![t] = 0]
    /\ UNCHANGED <<memTable, immutableTable, sstables, files, nextTableID, phase, opEntry,
                   lastGet, expect, reopened>>

\* LSMStore.Get called by an idle client thread
Get(t) ==
    /\ phase = "open"
    /\ pc[t] = "idle"
    /\ \E k \in Keys : lastGet' = [key |-> k, value |-> LSMGet(k)]
    /\ UNCHANGED <<memTable, immutableTable, sstables, wal, files, nextTableID, flushMu,
                   phase, pc, opEntry, tableToFlush, tableID, expect, reopened>>

\* LSMStore.Close: maybeFlush if the memtable is non-empty (maybeFlush re-checks
\* the size against the threshold), then wal.Close
Close ==
    /\ phase = "open"
    /\ Idle
    /\ flushMu = {}
    /\ IF memTable.size > 0 /\ memTable.size >= MemTableSizeThreshold
       THEN LET content == MemTableIterator(memTable) IN
            /\ files' = [files EXCEPT ![nextTableID] = content]
            /\ sstables' = <<OpenSSTable(nextTableID, content)>> \o sstables
            /\ memTable' = NewMemTable
            /\ nextTableID' = nextTableID + 1
            /\ wal' = WALReset(wal)
       ELSE UNCHANGED <<files, sstables, memTable, nextTableID, wal>>
    /\ phase' = "closed"
    /\ lastGet' = NoGet
    /\ UNCHANGED <<immutableTable, flushMu, pc, opEntry, tableToFlush, tableID,
                   expect, reopened>>

\* decimal digits of a table id, as fmt.Sprintf("sstable_%d.db") prints them,
\* followed by the '.' of ".db" (-1: '.' sorts below every digit)
RECURSIVE DigitsOf(_)
DigitsOf(n) == IF n < 10 THEN <<n>> ELSE Append(DigitsOf(n \div 10), n % 10)
FileName(id) == Append(DigitsOf(id), -1)

\* files[i] > files[j] on the file names (Go string comparison)
RECURSIVE SeqGreater(_, _, _)
SeqGreater(s, u, i) ==
    IF i > Len(s) \/ i > Len(u) THEN Len(s) > Len(u)
    ELSE IF s[i] /= u[i] THEN s[i] > u[i]
    ELSE SeqGreater(s, u, i + 1)
FileNameGreater(i, j) == SeqGreater(FileName(i), FileName(j), 1)

\* loadSSTables: the existing files, sorted by name descending
RECURSIVE SortFilesDesc(_)
SortFilesDesc(ids) ==
    IF ids = {} THEN <<>>
    ELSE LET top == CHOOSE i \in ids : \A j \in ids \ {i} : FileNameGreater(i, j) IN
         <<top>> \o SortFilesDesc(ids \ {top})

ExistingFiles == {i \in DOMAIN files : files[i] /= NoFile}

LoadSSTables ==
    LET ids == SortFilesDesc(ExistingFiles) IN
    [i \in 1..Len(ids) |-> OpenSSTable(ids[i], files[ids[i]])]

\* loadSSTables with nextTableID set to the number of files found
LoadNextTableIDByCount == Cardinality(ExistingFiles)

\* loadSSTables: nextTableID becomes the largest id found plus one
LoadNextTableID ==
    IF ExistingFiles = {} THEN 0
    ELSE (CHOOSE i \in ExistingFiles : \A j \in ExistingFiles : j <= i) + 1

\* LSMStore.recover: replay the WAL entries into the fresh memtable
RECURSIVE Recover(_, _, _)
Recover(m, entries, i) ==
    IF i > Len(entries) THEN m
    ELSE Recover(ApplyEntry(m, entries[i]), entries, i + 1)

\* NewLSMStore on the existing data directory
Open ==
    /\ phase = "closed"
    /\ memTable' = Recover(NewMemTable, wal, 1)
    /\ immutableTable' = NoTable
    /\ sstables' = LoadSSTables
    /\ nextTableID' = LoadNextTableID
    /\ phase' = "open"
    /\ reopened' = TRUE
    /\ lastGet' = NoGet
    /\ UNCHANGED <<wal, files, flushMu, pc, opEntry, tableToFlush, tableID, expect>>

\* NewCompactionManager: the statistics start from zero; no compaction runs
NoMergeStats == [KeysRemoved |-> 0, BytesReclaimed |-> 0]
NewCompactionManager ==
    [stats  |-> [TotalCompactions |-> 0, TotalBytesReclaimed |-> 0, TotalKeysRemoved |-> 0],
     caller |-> "none",
     merge  |-> NoMergeStats]

LSMInit ==
    /\ memTable = NewMemTable
    /\ immutableTable = NoTable
    /\ sstables = <<>>
    /\ wal = <<>>
    /\ files = [i \in TableIDs |-> NoFile]
    /\ nextTableID = 0
    /\ flushMu = {}
    /\ phase = "open"
    /\ pc = [t \in Threads |-> "idle"]
    /\ opEntry = [t \in Threads |-> NoEntry]
    /\ tableToFlush = [t \in Threads |-> NoTable]
    /\ tableID = [t \in Threads |-> 0]
    /\ lastGet = NoGet
    /\ expect = [k \in Keys |-> NONE]
    /\ reopened = FALSE
    /\ compaction = NoCompaction
    /\ reading = NoRead
    /\ finalized = {}
    /\ flushErr = NoFlushErr
    /\ cm = NewCompactionManager

(***************************************************************************)
(*      COMPACTION, READERS AND FLUSH FAILURES                             *)
(*      (CompactionManager, LSMStore)                                      *)
(***************************************************************************)
PartialFile == [partial |-> TRUE]   \* a table file that was created and never finalized

lsmOnly == <<memTable, immutableTable, sstables, wal, files, nextTableID, flushMu,
             phase, pc, opEntry, tableToFlush, tableID, lastGet, expect, reopened>>

\* mergeSSTables' map of the newest version with the test of the table index
\* turned around: the version of the last table of the list that holds k
RECURSIVE OldestVersion(_, _, _)
OldestVersion(tables, i, k) ==
    IF i > Len(tables) THEN NONE
    ELSE LET rest == OldestVersion(tables, i + 1, k) IN
         IF rest /= NONE THEN rest
         ELSE IF k \in tables[i].index THEN files[tables[i].id][k] ELSE NONE

\* mergeSSTables, lines 544-566: the version of k with the lowest table index
RECURSIVE NewestVersion(_, _, _)
NewestVersion(tables, i, k) ==
    IF i > Len(tables) THEN NONE
    ELSE IF k \in tables[i].index THEN files[tables[i].id][k]
    ELSE NewestVersion(tables, i + 1, k)

\* mergeSSTables: the entries of the output table, tombstones left out
MergeSSTables(tables) ==
    [k \in Keys |-> LET v == NewestVersion(tables, 1, k) IN
                    IF v = TOMBSTONE THEN NONE ELSE v]

\* sst.Get fails for an entry of the index when the table's file is gone
MergeFails(tables) ==
    \E i \in 1..Len(tables) : tables[i].index /= {} /\ files[tables[i].id] = NoFile

\* compact, lines 445-462: under store.mu, copy the list and take the next id
CompactBegin ==
    /\ phase = "open"
    /\ compaction = NoCompaction
    /\ sstables /= <<>>
    /\ nextTableID <= MaxTables
    /\ compaction' = [pc |-> "merge", tables |-> sstables, newTableID |-> nextTableID]
    /\ nextTableID' = nextTableID + 1
    /\ UNCHANGED <<memTable, immutableTable, sstables, wal, files, flushMu, phase, pc,
                   opEntry, tableToFlush, tableID, lastGet, expect, reopened>>
    /\ UNCHANGED <<reading, finalized, flushErr>>

\* compact, lines 464-490: merge, write and finalize sstable_<newTableID>.db,
\* open it
CompactWrite ==
    /\ compaction.pc = "merge"
    /\ IF MergeFails(compaction.tables)
       THEN /\ compaction' = NoCompaction
            /\ UNCHANGED <<files, finalized>>
       ELSE LET content == MergeSSTables(compaction.tables) IN
            /\ files' = [files EXCEPT ![compaction.newTableID] = content]
            /\ finalized' = finalized \cup {compaction.newTableID}
            /\ compaction' = [compaction EXCEPT !.pc = "swap"] @@
                             [newSSTable |-> OpenSSTable(compaction.newTableID, content)]
    /\ UNCHANGED <<memTable, immutableTable, sstables, wal, nextTableID, flushMu, phase,
                   pc, opEntry, tableToFlush, tableID, lastGet, expect, reopened>>
    /\ UNCHANGED <<reading, flushErr>>

\* compact, lines 493-504: under store.mu, the list becomes the new table alone
CompactSwap ==
    /\ compaction.pc = "swap"
    /\ sstables' = <<compaction.newSSTable>>
    /\ compaction' = [compaction EXCEPT !.pc = "unlink"]
    /\ UNCHANGED <<memTable, immutableTable, wal, files, nextTableID, flushMu, phase, pc,
                   opEntry, tableToFlush, tableID, lastGet, expect, reopened>>
    /\ UNCHANGED <<reading, finalized, flushErr>>

\* compact, lines 507-511: os.Remove of the files of the merged tables
CompactUnlink ==
    /\ compaction.pc = "unlink"
    /\ files' = [i \in TableIDs |->
                    IF \E j \in 1..Len(compaction.tables) : compaction.tables[j].id = i
                    THEN NoFile ELSE files[i]]
    /\ compaction' = NoCompaction
    /\ UNCHANGED <<memTable, immutableTable, sstables, wal, nextTableID, flushMu, phase,
                   pc, opEntry, tableToFlush, tableID, lastGet, expect, reopened>>
    /\ UNCHANGED <<reading, finalized, flushErr>>

\* maybeCompact compacts when the list holds more tables than this; scaled
\* down from 4 to the table counts of the model
CompactionTrigger == 1

\* len(key) + len(value) summed over the entries of a table's content
RECURSIVE EntriesSize(_, _)
EntriesSize(content, ks) ==
    IF ks = {} THEN 0
    ELSE LET k == CHOOSE x \in ks : TRUE IN
         (IF content[k] = NONE THEN 0 ELSE KeyLen(k) + ValLen(content[k]))
             + EntriesSize(content, ks \ {k})

\* mergeSSTables, lines 548-562: totalOriginalSize over the entries of all tables
RECURSIVE TotalOriginalSize(_, _)
TotalOriginalSize(tables, i) ==
    IF i > Len(tables) THEN 0
    ELSE EntriesSize(files[tables[i].id], tables[i].index)
             + TotalOriginalSize(tables, i + 1)

\* mergeSSTables, lines 569-600: the MergeStats returned with the merged entries
MergeStats(tables) ==
    [KeysRemoved    |-> Cardinality({k \in Keys : NewestVersion(tables, 1, k) = TOMBSTONE}),
     BytesReclaimed |-> TotalOriginalSize(tables, 1)
                            - EntriesSize(MergeSSTables(tables), Keys)]

\* maybeCompact, lines 415-427: compact() is called when the list holds more
\* than the trigger's number of tables
MaybeCompact ==
    /\ Len(sstables) > CompactionTrigger
    /\ CompactBegin
    /\ cm' = [cm EXCEPT !.caller = "maybeCompact"]

\* ForceCompact: compact() is called at once
ForceCompact ==
    /\ CompactBegin
    /\ cm' = [cm EXCEPT !.caller = "ForceCompact"]

\* compact, lines 464-490, with the MergeStats that mergeSSTables returned
CompactMerge ==
    /\ CompactWrite
    /\ cm' = IF MergeFails(compaction.tables)
             THEN [cm EXCEPT !.caller = "none"]
             ELSE [cm EXCEPT !.merge = MergeStats(compaction.tables)]

\* compact, lines 513-517: the MergeStats are added to the statistics;
\* maybeCompact, lines 434-437: after compact() has returned nil,
\* TotalCompactions is incremented
UpdateStats ==
    [TotalCompactions    |-> IF cm.caller = "maybeCompact"
                             THEN cm.stats.TotalCompactions + 1
                             ELSE cm.stats.TotalCompactions,
     TotalBytesReclaimed |-> cm.stats.TotalBytesReclaimed + cm.merge.BytesReclaimed,
     TotalKeysRemoved    |-> cm.stats.TotalKeysRemoved + cm.merge.KeysRemoved]

\* compact, lines 507-520, and the return to its caller
CompactReturn ==
    /\ CompactUnlink
    /\ cm' = [stats |-> UpdateStats, caller |-> "none", merge |-> NoMergeStats]

\* LSMStore.Get of the reader thread, lines 96-115: under the read lock look
\* into the memtable and the immutable memtable and copy the table list
ReadBegin(k) ==
    /\ phase = "open"
    /\ reading = NoRead \/ reading.pc = "done"
    /\ LET m  == MemTableGet(memTable, k)
           im == IF immutableTable /= NoTable
                 THEN MemTableGet(immutableTable, k)
                 ELSE [value |-> NONE, found |-> FALSE]
       IN  reading' =
             IF m.found
             THEN [pc |-> "done", key |-> k, value |-> m.value, expect |-> expect[k],
                   atomic |-> LSMGet(k), tables |-> <<>>]
             ELSE IF im.found
             THEN [pc |-> "done", key |-> k, value |-> im.value, expect |-> expect[k],
                   atomic |-> LSMGet(k), tables |-> <<>>]
             ELSE [pc |-> "tables", key |-> k, value |-> NONE, expect |-> expect[k],
                   atomic |-> LSMGet(k), tables |-> sstables]
    /\ UNCHANGED lsmOnly
    /\ UNCHANGED <<compaction, finalized, flushErr>>

\* LSMStore.Get of the reader thread, lines 117-131: read the copied tables
ReadTables ==
    /\ reading.pc /= "none"
    /\ reading.pc = "tables"
    /\ reading' = [reading EXCEPT !.pc = "done",
                                  !.value = GetFromSSTables(reading.tables, 1, reading.key)]
    /\ UNCHANGED lsmOnly
    /\ UNCHANGED <<compaction, finalized, flushErr>>

\* flushToDisk returns an error (the file was not created, or was created and
\* not finalized); maybeFlush returns it, lines 188-190
FlushFail(t) ==
    /\ pc[t] = "flushIO"
    /\ \E f \in {files[tableID[t]], PartialFile} :
          files' = [files EXCEPT ![tableID[t]] = f]
    /\ flushMu' = {}
    /\ pc' = [pc EXCEPT ![t] = "idle"]
    /\ tableToFlush' = [tableToFlush EXCEPT ![t] = NoTable]
    /\ tableID' = [tableID EXCEPT ![t] = 0]
    /\ UNCHANGED <<memTable, immutableTable, sstables, wal, nextTableID, phase, opEntry,
                   lastGet, expect, reopened>>

(***************************************************************************)
(*                          RAFT ELECTION CORE                             *)
(***************************************************************************)
NodeIDs    == <<"n1", "n2", "n3", "n4">>
Cluster(n) == {NodeIDs[i] : i \in 1..n}
Nodes      == DOMAIN peers
NoElection == [none |-> TRUE]

Follower  == "Follower"
Candidate == "Candidate"
Leader    == "Leader"

\* the election timer as the event loop sees it: Armed (the loop's select waits
\* on the running timer), Stale (the timer was replaced while the loop was
\* blocked in select, the loop still waits on the old, stopped timer), Stopped
Armed   == "armed"
Stale   == "stale"
Stopped == "stopped"

\* Start: the election timer is armed, the heartbeat timer is stopped, and
\* the event loop is started
StartTimers == [election |-> Armed, heartbeat |-> FALSE]

RaftInit(n) ==
    /\ peers = [i \in Cluster(n) |-> Cluster(n) \ {i}]
    /\ currentTerm = [i \in Cluster(n) |-> 0]
    /\ votedFor = [i \in Cluster(n) |-> ""]
    /\ log = [i \in Cluster(n) |-> <<0>>]
    /\ state = [i \in Cluster(n) |-> Follower]
    /\ election = [i \in Cluster(n) |-> NoElection]
    /\ voteReqs = {}
    /\ voteResps = {}
    /\ appendReqs = {}
    /\ appendResps = {}
    /\ started = {}
    /\ leaders = {}
    /\ votes = {}
    /\ timers = [i \in Cluster(n) |-> StartTimers]
    /\ down = {}

\* lastLogIndex, lastLogTerm of a node's log (index 0 is the dummy entry)
LastLogIndex(i) == Len(log[i]) - 1
LastLogTerm(i)  == log[i][Len(log[i])]

\* a number of votes that no candidate can collect
VotesNeededMore(i) == Cardinality(peers[i]) + 2

\* startElection: votesNeeded := len(rn.peers)/2 + 1
VotesNeeded(i) == Cardinality(peers[i]) \div 2 + 1

\* resetElectionTimer called by an RPC goroutine: the timer object is replaced;
\* the event loop picks the new timer up only if it is not blocked in select,
\* i.e. if it is inside startElection
ResetElectionTimer(i) ==
    [timers[i] EXCEPT !.election = IF election[i] /= NoElection THEN Armed ELSE Stale]

\* run: the election timer fires; startElection lines 11-44: become candidate of
\* the next term, vote for self, re-arm the timer, send RequestVote to every peer
Timeout(i) ==
    /\ i \notin down
    /\ state[i] /= Leader
    /\ timers[i].election = Armed
    /\ election[i] = NoElection
    /\ started' = started \cup {<<i, currentTerm[i] + 1>>}
    /\ state' = [state EXCEPT ![i] = Candidate]
    /\ currentTerm' = [currentTerm EXCEPT ![i] = currentTerm[i] + 1]
    /\ votedFor' = [votedFor EXCEPT ![i] = i]
    /\ election' = [election EXCEPT ![i] =
                       [term |-> currentTerm[i] + 1, votesReceived |-> 1]]
    /\ voteReqs' = voteReqs \cup
           {[from |-> i, to |-> p, term |-> currentTerm[i] + 1,
             lastLogIndex |-> LastLogIndex(i), lastLogTerm |-> LastLogTerm(i)] :
               p \in peers[i]}
    /\ UNCHANGED <<peers, log, voteResps, appendReqs, appendResps, leaders,
                   votes, timers, down>>

\* isLogUpToDate with the comparison of the last terms left out
IsLogUpToDateByIndex(i, candidateLastIndex, candidateLastTerm) ==
    candidateLastIndex >= LastLogIndex(i)

\* isLogUpToDate
IsLogUpToDate(i, candidateLastIndex, candidateLastTerm) ==
    IF candidateLastTerm /= LastLogTerm(i)
    THEN candidateLastTerm >= LastLogTerm(i)
    ELSE candidateLastIndex >= LastLogIndex(i)

\* the vote decision with the test of votedFor left out
GrantVoteByLog(voted, i, m) ==
    IsLogUpToDate(i, m.lastLogIndex, m.lastLogTerm)

\* the vote decision of the RequestVote handler, after the term was adopted
GrantVote(voted, i, m) ==
    /\ voted = "" \/ voted = m.from
    /\ IsLogUpToDate(i, m.lastLogIndex, m.lastLogTerm)

\* RequestVote RPC handler, run by the receiver of request m
HandleRequestVote(m) ==
    LET i == m.to IN
    /\ i \notin down
    /\ m \in voteReqs
    /\ voteReqs' = voteReqs \ {m}
    /\ IF m.term < currentTerm[i]
       THEN /\ voteResps' = voteResps \cup
                   {[from |-> i, to |-> m.from, reqTerm |-> m.term,
                     term |-> currentTerm[i], voteGranted |-> FALSE]}
            /\ UNCHANGED <<currentTerm, votedFor, state, votes, timers>>
       ELSE LET newer   == m.term > currentTerm[i]
                voted   == IF newer THEN "" ELSE votedFor[i]
                granted == GrantVote(voted, i, m) IN
            /\ currentTerm' = [currentTerm EXCEPT ![i] = m.term]
            /\ state' = [state EXCEPT ![i] = IF newer THEN Follower ELSE state[i]]
            /\ votedFor' = [votedFor EXCEPT ![i] = IF granted THEN m.from ELSE voted]
            /\ votes' = IF granted THEN votes \cup {m} ELSE votes
            /\ timers' = IF granted
                         THEN [timers EXCEPT ![i] = ResetElectionTimer(i)]
                         ELSE timers
            /\ voteResps' = voteResps \cup
                   {[from |-> i, to |-> m.from, reqTerm |-> m.term,
                     term |-> m.term, voteGranted |-> granted]}
    /\ UNCHANGED <<peers, log, election, appendReqs, appendResps, started, leaders,
                   down>>

\* stepDown that keeps the role
StepDownStateKeep(i, term) == state[i]

\* stepDown(term): the node's term, vote, role and timers afterwards
StepDownTerm(i, term)  == IF term > currentTerm[i] THEN term ELSE currentTerm[i]
StepDownVote(i, term)  == IF term > currentTerm[i] THEN "" ELSE votedFor[i]
StepDownState(i, term) == IF term > currentTerm[i] THEN Follower ELSE state[i]
StepDownTimers(i, term) ==
    IF term > currentTerm[i]
    THEN [ResetElectionTimer(i) EXCEPT !.heartbeat = FALSE]
    ELSE timers[i]

\* becomeLeader(term) succeeds only for a candidate still in that term
CanBecomeLeader(i, term) == currentTerm[i] = term /\ state[i] = Candidate

\* becomeLeader: the election timer is stopped, the heartbeat timer started
LeaderTimers == [election |-> Stopped, heartbeat |-> TRUE]

\* the empty AppendEntries requests of leader i in the given term, one per peer
Heartbeats(i, term) == {[from |-> i, to |-> p, term |-> term] : p \in peers[i]}

\* requestVote receives the response m (stepping down on a higher term), and
\* the vote loop of the startElection call that sent the request counts it;
\* becomeLeader sends the first heartbeats at once
RecvVoteResponse(m) ==
    LET i       == m.to
        vote    == IF m.term > m.reqTerm THEN FALSE ELSE m.voteGranted
        running == election[i] /= NoElection /\ election[i].term = m.reqTerm
        votes1  == IF running /\ vote THEN election[i].votesReceived + 1 ELSE 0
        won     == running /\ vote /\ votes1 >= VotesNeeded(i) IN
    /\ i \notin down
    /\ m \in voteResps
    /\ voteResps' = voteResps \ {m}
    /\ IF m.term > m.reqTerm
       THEN /\ currentTerm' = [currentTerm EXCEPT ![i] = StepDownTerm(i, m.term)]
            /\ votedFor' = [votedFor EXCEPT ![i] = StepDownVote(i, m.term)]
            /\ state' = [state EXCEPT ![i] = StepDownState(i, m.term)]
            /\ timers' = [timers EXCEPT ![i] = StepDownTimers(i, m.term)]
            /\ UNCHANGED <<election, leaders, appendReqs>>
       ELSE /\ UNCHANGED <<currentTerm, votedFor>>
            /\ IF won
               THEN /\ election' = [election EXCEPT ![i] = NoElection]
                    /\ IF CanBecomeLeader(i, m.reqTerm)
                       THEN /\ state' = [state EXCEPT ![i] = Leader]
                            /\ leaders' = leaders \cup {<<i, m.reqTerm>>}
                            /\ timers' = [timers EXCEPT ![i] = LeaderTimers]
                            /\ appendReqs' = appendReqs \cup Heartbeats(i, m.reqTerm)
                       ELSE UNCHANGED <<state, leaders, timers, appendReqs>>
               ELSE /\ election' = IF running /\ vote
                                   THEN [election EXCEPT ![i].votesReceived = votes1]
                                   ELSE election
                    /\ UNCHANGED <<state, leaders, timers, appendReqs>>
    /\ UNCHANGED <<peers, log, voteReqs, appendResps, started, votes, down>>

\* startElection returns without a win: the vote loop timed out, or every peer
\* answered
ElectionEnd(i) ==
    /\ i \notin down
    /\ election[i] /= NoElection
    /\ election' = [election EXCEPT ![i] = NoElection]
    /\ UNCHANGED <<peers, currentTerm, votedFor, log, state, voteReqs, voteResps,
                   appendReqs, appendResps, started, leaders, votes, timers, down>>

\* sendHeartbeats: a leader sends an empty AppendEntries to every peer (run:
\* the heartbeat timer of a leader fires)
SendHeartbeats(i) ==
    /\ i \notin down
    /\ state[i] = Leader
    /\ appendReqs' = appendReqs \cup Heartbeats(i, currentTerm[i])
    /\ appendReqs' /= appendReqs
    /\ UNCHANGED <<peers, currentTerm, votedFor, log, state, election, voteReqs,
                   voteResps, appendResps, started, leaders, votes, timers, down>>

\* run: the heartbeat timer of a node that is no longer leader fires; nothing
\* is sent and the timer is not re-armed, but the loop enters select again and
\* waits on the current election timer
HeartbeatTick(i) ==
    /\ i \notin down
    /\ state[i] /= Leader
    /\ election[i] = NoElection
    /\ timers[i].heartbeat
    /\ timers' = [timers EXCEPT ![i] =
                     [election  |-> IF timers[i].election = Stale
                                    THEN Armed ELSE timers[i].election,
                      heartbeat |-> FALSE]]
    /\ UNCHANGED <<peers, currentTerm, votedFor, log, state, election, voteReqs,
                   voteResps, appendReqs, appendResps, started, leaders, votes,
                   down>>

\* AppendEntries RPC handler, run by the receiver of request m; the response
\* matters to the sender only when it carries a higher term
HandleAppendEntries(m) ==
    LET i == m.to IN
    /\ i \notin down
    /\ m \in appendReqs
    /\ appendReqs' = appendReqs \ {m}
    /\ IF m.term < currentTerm[i]
       THEN /\ appendResps' = appendResps \cup
                   {[from |-> i, to |-> m.from, reqTerm |-> m.term,
                     term |-> currentTerm[i]]}
            /\ UNCHANGED <<currentTerm, votedFor, state, timers>>
       ELSE /\ IF m.term > currentTerm[i]
               THEN /\ currentTerm' = [currentTerm EXCEPT ![i] = m.term]
                    /\ votedFor' = [votedFor EXCEPT ![i] = ""]
                    /\ state' = [state EXCEPT ![i] = Follower]
               ELSE UNCHANGED <<currentTerm, votedFor, state>>
            /\ timers' = [timers EXCEPT ![i] = ResetElectionTimer(i)]
            /\ UNCHANGED appendResps
    /\ UNCHANGED <<peers, log, election, voteReqs, voteResps, started, leaders,
                   votes, down>>

\* sendHeartbeats receives a response with a higher term: stepDown
RecvAppendResponse(m) ==
    LET i == m.to IN
    /\ i \notin down
    /\ m \in appendResps
    /\ appendResps' = appendResps \ {m}
    /\ currentTerm' = [currentTerm EXCEPT ![i] = StepDownTerm(i, m.term)]
    /\ votedFor' = [votedFor EXCEPT ![i] = StepDownVote(i, m.term)]
    /\ state' = [state EXCEPT ![i] = StepDownState(i, m.term)]
    /\ timers' = [timers EXCEPT ![i] = StepDownTimers(i, m.term)]
    /\ UNCHANGED <<peers, log, election, voteReqs, voteResps, appendReqs, started,
                   leaders, votes, down>>

\* Shutdown: the node's timers are stopped, its event loop and its RPC server
\* end; its fields keep their last values
Shutdown(i) ==
    /\ i \notin down
    /\ down' = down \cup {i}
    /\ timers' = [timers EXCEPT ![i] = [election |-> Stopped, heartbeat |-> FALSE]]
    /\ election' = [election EXCEPT ![i] = NoElection]
    /\ UNCHANGED <<peers, currentTerm, votedFor, log, state, voteReqs, voteResps,
                   appendReqs, appendResps, started, leaders, votes>>

\* an RPC addressed to a node that was shut down fails: requestVote returns
\* false, sendHeartbeats ignores the error
RpcError(m) ==
    /\ m.to \in down
    /\ m \in voteReqs \cup appendReqs
    /\ voteReqs' = voteReqs \ {m}
    /\ appendReqs' = appendReqs \ {m}
    /\ UNCHANGED <<peers, currentTerm, votedFor, log, state, election, voteResps,
                   appendResps, started, leaders, votes, timers, down>>

(***************************************************************************)
(*              REPLICATION FUNCTIONS (replication package)                *)
(***************************************************************************)
ReplicationFactor == 3
WriteQuorum       == 2
ReadQuorum        == 2

Replicas       == {"r1", "r2", "r3"}
CoordKey       == "k"
NIL            == "<nil>"
NoResponse     == [none |-> TRUE]

\* a ReplicaResponse; fields that are not set hold Go's zero value
ReplicaResponse(node, success, value, version, timestamp, err) ==
    [NodeID |-> node, Success |-> success, Value |-> value, Version |-> version,
     Timestamp |-> timestamp, Error |-> err]

\* the loop of ResolveConflict from index i on, latest being the choice so far
RECURSIVE ResolveFrom(_, _, _)
ResolveFrom(resps, i, best) ==
    IF i > Len(resps) THEN best
    ELSE LET resp == resps[i] IN
         IF resp.Timestamp > best.Timestamp
         THEN ResolveFrom(resps, i + 1, resp)
         ELSE IF resp.Timestamp = best.Timestamp /\ resp.Version > best.Version
              THEN ResolveFrom(resps, i + 1, resp)
              ELSE ResolveFrom(resps, i + 1, best)

\* variant: the version is not used to break a tie of timestamps
RECURSIVE ResolveFromByTimestamp(_, _, _)
ResolveFromByTimestamp(resps, i, best) ==
    IF i > Len(resps) THEN best
    ELSE IF resps[i].Timestamp > best.Timestamp
         THEN ResolveFromByTimestamp(resps, i + 1, resps[i])
         ELSE ResolveFromByTimestamp(resps, i + 1, best)

ResolveConflictByTimestamp(resps) ==
    IF Len(resps) = 0 THEN NoResponse ELSE ResolveFromByTimestamp(resps, 2, resps[1])

ResolveConflict(resps) ==
    IF Len(resps) = 0 THEN NoResponse ELSE ResolveFrom(resps, 2, resps[1])

\* variant: every response counts, successful or not
QuorumReachedByResponses(resps, quorum) == Len(resps) >= quorum

QuorumReached(resps, quorum) ==
    Cardinality({i \in 1..Len(resps) : resps[i].Success}) >= quorum

GenerateVersion(timestamp) == timestamp

NeedsReadRepair(resps) ==
    IF Len(resps) <= 1 THEN FALSE
    ELSE \E i \in 2..Len(resps) :
             \/ resps[i].Timestamp /= resps[1].Timestamp
             \/ resps[i].Version /= resps[1].Version

\* variant: only the timestamp is compared
IsOutdatedByTimestamp(resp, best) ==
    /\ resp.NodeID /= best.NodeID
    /\ resp.Timestamp < best.Timestamp

IsOutdated(resp, best) ==
    /\ resp.NodeID /= best.NodeID
    /\ resp.Timestamp < best.Timestamp \/ resp.Version < best.Version

\* the node ids of the outdated responses, in the order of the responses
GetOutdatedReplicas(resps, best) ==
    LET old == SelectSeq(resps, LAMBDA resp : IsOutdated(resp, best)) IN
    [i \in 1..Len(old) |-> old[i].NodeID]

(***************************************************************************)
(*                 HINTED HANDOFF (replication package)                    *)
(***************************************************************************)
maxHints == 10000

Hint(node, key, value, timestamp, version) ==
    [TargetNode |-> node, Key |-> key, Value |-> value, Timestamp |-> timestamp,
     Version |-> version]

\* StoreHint: the hints afterwards (a full list for the node is left as it is)
StoreHint(hs, node, key, value, timestamp, version) ==
    IF Len(hs[node]) >= maxHints THEN hs
    ELSE [hs EXCEPT ![node] = Append(@, Hint(node, key, value, timestamp, version))]

(***************************************************************************)
(*                  REPLICA SERVERS (ReplicaPut, ReplicaGet)               *)
(***************************************************************************)
NoRecord == [found |-> FALSE, value |-> "", timestamp |-> 0, version |-> 0]

\* ReplicaPut: the server stores the value under the supplied timestamp and version
ReplicaPut(value, timestamp, version) ==
    [found |-> TRUE, value |-> value, timestamp |-> timestamp, version |-> version]

\* ReplicaGet: {value, found, timestamp, version} as stored
ReplicaGet(rec) == rec

\* the Delete handler of the server: the key is not found afterwards
ServerDelete(rec) == NoRecord

(***************************************************************************)
(*                 CLUSTER COORDINATOR (ClusterClient)                     *)
(***************************************************************************)
CoordValues == {"x", "y"}
NoOp        == [kind |-> "none"]

\* what happens to one replica call of a Put or Delete:
\*   ack    the server applied it and replied success
\*   nack   the server replied success = false, nothing applied
\*   error  the call failed (no client, transport error, timeout), nothing applied
WriteOutcomes == {"ack", "nack", "error"}
\* what happens to one ReplicaGet call: a reply, or an error
ReadOutcomes  == {"reply", "error"}

Applied(o) == o = "ack"

\* the orders in which the results of the N parallel calls can arrive
Orders == {o \in [1..ReplicationFactor -> Replicas] :
              \A i, j \in 1..ReplicationFactor : i /= j => o[i] /= o[j]}

\* GenerateTimestamp: the clock has advanced since the last call
GenerateTimestamp == clock + 1

\* the result a Put or Delete goroutine sends for one replica
WriteResult(node, o) ==
    ReplicaResponse(node, o = "ack", "", 0, 0,
                    IF o = "error" THEN "rpc error" ELSE NIL)

\* Put's collection loop from arrival i on: a hint for every result that is
\* not a success and carries an error
RECURSIVE CollectHints(_, _, _, _, _, _, _)
CollectHints(resps, i, hs, key, value, timestamp, version) ==
    IF i > Len(resps) THEN hs
    ELSE CollectHints(resps, i + 1,
             IF ~resps[i].Success /\ resps[i].Error /= NIL
             THEN StoreHint(hs, resps[i].NodeID, key, value, timestamp, version)
             ELSE hs,
             key, value, timestamp, version)

CoordPut(key, value, outcome, order) ==
    LET timestamp == GenerateTimestamp
        version   == GenerateVersion(timestamp)
        resps     == [i \in 1..ReplicationFactor |->
                         WriteResult(order[i], outcome[order[i]])]
        ok        == QuorumReached(resps, WriteQuorum) IN
    /\ lastOp = NoOp
    /\ clock' = timestamp
    /\ replica' = [r \in Replicas |->
                      IF Applied(outcome[r]) THEN ReplicaPut(value, timestamp, version)
                      ELSE replica[r]]
    /\ hints' = CollectHints(resps, 1, hints, key, value, timestamp, version)
    /\ lastOp' = [kind |-> "put", ok |-> ok,
                  err |-> IF ok THEN NIL ELSE "write quorum not reached",
                  key |-> key, value |-> value, timestamp |-> timestamp,
                  version |-> version,
                  acks |-> {r \in Replicas : outcome[r] = "ack"}]
    /\ lastWrite' = [kind |-> "put", value |-> value, ok |-> ok]
    /\ UNCHANGED repairs

\* Get's collection loop: the found results, in arrival order
FoundResponses(outcome, order) ==
    LET arrived == [i \in 1..ReplicationFactor |->
                       LET node == order[i]
                           resp == ReplicaGet(replica[node]) IN
                       IF outcome[node] = "reply"
                       THEN ReplicaResponse(node, resp.found, resp.value, resp.version,
                                            resp.timestamp, NIL)
                       ELSE ReplicaResponse(node, FALSE, "", 0, 0, "rpc error")] IN
    SelectSeq(arrived, LAMBDA r : r.Success)

\* variant: one found response is enough
ReadQuorumMissedNone(resps) == Len(resps) < 1

ReadQuorumMissed(resps) == Len(resps) < ReadQuorum

\* Get after the collection: quorum check, conflict resolution, read repair
GetFromResponses(resps) ==
    IF ReadQuorumMissed(resps)
    THEN [ok |-> FALSE, err |-> "read quorum not reached", value |-> "",
          latest |-> NoResponse, outdated |-> <<>>]
    ELSE IF Len(resps) = 0
    THEN [ok |-> FALSE, err |-> "key not found", value |-> "",
          latest |-> NoResponse, outdated |-> <<>>]
    ELSE LET best == ResolveConflict(resps) IN
         [ok |-> TRUE, err |-> NIL, value |-> best.Value, latest |-> best,
          outdated |-> IF NeedsReadRepair(resps)
                       THEN GetOutdatedReplicas(resps, best) ELSE <<>>]

\* performReadRepair: one ReplicaPut call per outdated node
RepairWrites(key, best, outdatedNodes) ==
    {[to |-> outdatedNodes[i], Key |-> key, Value |-> best.Value,
      Timestamp |-> best.Timestamp, Version |-> best.Version] :
        i \in 1..Len(outdatedNodes)}

CoordGet(key, outcome, order) ==
    LET resps == FoundResponses(outcome, order)
        res   == GetFromResponses(resps) IN
    /\ lastOp = NoOp
    /\ repairs' = repairs \cup RepairWrites(key, res.latest, res.outdated)
    /\ lastOp' = [kind |-> "get", ok |-> res.ok, err |-> res.err, key |-> key,
                  value |-> res.value, timestamp |-> 0, version |-> 0,
                  acks |-> {r \in Replicas : outcome[r] = "reply" /\ replica[r].found}]
    /\ UNCHANGED <<replica, clock, hints, lastWrite>>

CoordDelete(key, outcome, order) ==
    LET resps == [i \in 1..ReplicationFactor |->
                     WriteResult(order[i], outcome[order[i]])]
        ok    == QuorumReached(resps, WriteQuorum) IN
    /\ lastOp = NoOp
    /\ replica' = [r \in Replicas |->
                      IF Applied(outcome[r]) THEN ServerDelete(replica[r])
                      ELSE replica[r]]
    /\ lastOp' = [kind |-> "delete", ok |-> ok,
                  err |-> IF ok THEN NIL ELSE "delete quorum not reached",
                  key |-> key, value |-> "", timestamp |-> 0, version |-> 0,
                  acks |-> {r \in Replicas : outcome[r] = "ack"}]
    /\ lastWrite' = [kind |-> "delete", value |-> "", ok |-> ok]
    /\ UNCHANGED <<clock, hints, repairs>>

\* the call has returned and the client has its result: the next call can start
Return ==
    /\ lastOp /= NoOp
    /\ lastOp' = NoOp
    /\ UNCHANGED <<replica, clock, hints, repairs, lastWrite>>

\* a read-repair ReplicaPut reaches its replica
DeliverRepair(m) ==
    /\ m \in repairs
    /\ repairs' = repairs \ {m}
    /\ replica' = [replica EXCEPT ![m.to] = ReplicaPut(m.Value, m.Timestamp, m.Version)]
    /\ UNCHANGED <<clock, hints, lastOp, lastWrite>>

\* a read-repair ReplicaPut fails
FailRepair(m) ==
    /\ m \in repairs
    /\ repairs' = repairs \ {m}
    /\ UNCHANGED <<replica, clock, hints, lastOp, lastWrite>>

CoordInit ==
    /\ replica = [r \in Replicas |-> NoRecord]
    /\ clock = 0
    /\ hints = [r \in Replicas |-> <<>>]
    /\ repairs = {}
    /\ lastOp = NoOp
    /\ lastWrite = [kind |-> "none", value |-> "", ok |-> FALSE]

(***************************************************************************)
(*          THE REPLICATION FUNCTIONS ON ARBITRARY RESPONSE LISTS          *)
(***************************************************************************)
NoGot == [none |-> TRUE]

ResponseRecords ==
    {ReplicaResponse(n, TRUE, v, ver, ts, NIL) :
        n \in Replicas, v \in CoordValues, ver \in 1..MaxStamp, ts \in 1..MaxStamp}

\* the lists of up to N found responses, one per node at most, in any order
ResponseLists ==
    UNION {{l \in [1..n -> ResponseRecords] :
               \A i, j \in 1..n : i /= j => l[i].NodeID /= l[j].NodeID} :
           n \in 0..ReplicationFactor}

PureIdle == responses = <<>> /\ latest = NoResponse /\ got = NoGot

PureInit == responses \in ResponseLists /\ latest = NoResponse /\ got = NoGot

Resolve ==
    /\ latest = NoResponse
    /\ latest' = ResolveConflict(responses)
    /\ UNCHANGED <<responses, got>>

GetCollected ==
    /\ got = NoGot
    /\ got' = [res |-> GetFromResponses(responses),
               writes |-> LET res == GetFromResponses(responses) IN
                          RepairWrites(CoordKey, res.latest, res.outdated)]
    /\ UNCHANGED <<responses, latest>>

(***************************************************************************)
(*                CONSISTENT HASH RING (cluster/hash_ring.go)              *)
(***************************************************************************)
RingNodeIDs == {"node1", "node2"}
Positions   == 1..MaxPosition
NoCall      == [kind |-> "none"]
NoPrior     == [none |-> TRUE]
ErrNoNodes  == "no nodes in hash ring"

\* the virtual-node keys "<nodeID>-vnode-<i>" of a ring with v virtual nodes
VNodeKeys(v) == RingNodeIDs \X (0..(v - 1))

NewHashRing(v) ==
    /\ virtualNodes = v
    /\ ring = [p \in Positions |-> ""]
    /\ sortedHashes = <<>>
    /\ nodes = {}

RingIdle ==
    /\ NewHashRing(1)
    /\ vnodeHash = [k \in VNodeKeys(1) |-> 1]
    /\ lastCall = NoCall
    /\ prior = NoPrior

\* an empty ring with any number of virtual nodes; hashKey maps the
\* virtual-node keys to positions in any way, two keys to one position included
RingInit ==
    /\ \E v \in 1..MaxVirtualNodes :
          /\ NewHashRing(v)
          /\ vnodeHash \in [VNodeKeys(v) -> Positions]
    /\ lastCall = NoCall
    /\ prior = NoPrior

\* s is ascending: h goes behind the elements that are not greater
SortedInsert(s, h) ==
    LET k == Cardinality({i \in 1..Len(s) : s[i] <= h})
    IN  SubSeq(s, 1, k) \o <<h>> \o SubSeq(s, k + 1, Len(s))

RECURSIVE SortHashes(_)
SortHashes(s) == IF s = <<>> THEN <<>> ELSE SortedInsert(SortHashes(Tail(s)), Head(s))

\* the hashes of the virtual nodes of nodeID, in the order of the loop
VNodeHashes(nodeID) == [i \in 1..virtualNodes |-> vnodeHash[<<nodeID, i - 1>>]]

\* hr.ring[hash] = nodeID for every virtual node: a position that already
\* has an owner gets the new one
RingWith(nodeID) ==
    [p \in Positions |->
        IF \E i \in 1..virtualNodes : VNodeHashes(nodeID)[i] = p THEN nodeID ELSE ring[p]]

Snapshot(nodeID) ==
    [id |-> nodeID, nodes |-> nodes, ring |-> ring, sortedHashes |-> sortedHashes]

AddNode(nodeID) ==
    /\ Len(sortedHashes) + virtualNodes <= MaxHashes
    /\ IF nodeID \in nodes
       THEN /\ UNCHANGED <<ring, sortedHashes, nodes>>
            /\ prior' = NoPrior
       ELSE /\ nodes' = nodes \cup {nodeID}
            /\ ring' = RingWith(nodeID)
            /\ sortedHashes' = SortHashes(sortedHashes \o VNodeHashes(nodeID))
            /\ prior' = Snapshot(nodeID)
    /\ lastCall' = [kind |-> "AddNode", id |-> nodeID]
    /\ UNCHANGED <<virtualNodes, vnodeHash>>

\* RemoveNode's loop with the test of the owner turned around
RECURSIVE RemoveWalkOthers(_, _, _, _)
RemoveWalkOthers(nodeID, k, r, newHashes) ==
    IF k > Len(sortedHashes)
    THEN [ring |-> r, sortedHashes |-> newHashes]
    ELSE LET hash == sortedHashes[k]
         IN  IF r[hash] = nodeID
             THEN RemoveWalkOthers(nodeID, k + 1, r, Append(newHashes, hash))
             ELSE RemoveWalkOthers(nodeID, k + 1, [r EXCEPT ![hash] = ""], newHashes)

\* the loop of RemoveNode over hr.sortedHashes from index k on: r is hr.ring
\* so far, newHashes the positions kept so far
RECURSIVE RemoveWalk(_, _, _, _)
RemoveWalk(nodeID, k, r, newHashes) ==
    IF k > Len(sortedHashes)
    THEN [ring |-> r, sortedHashes |-> newHashes]
    ELSE LET hash == sortedHashes[k]
         IN  IF r[hash] /= nodeID
             THEN RemoveWalk(nodeID, k + 1, r, Append(newHashes, hash))
             ELSE RemoveWalk(nodeID, k + 1, [r EXCEPT ![hash] = ""], newHashes)

RemoveNode(nodeID) ==
    /\ IF nodeID \notin nodes
       THEN UNCHANGED <<ring, sortedHashes, nodes>>
       ELSE LET after == RemoveWalk(nodeID, 1, ring, <<>>)
            IN  /\ nodes' = nodes \ {nodeID}
                /\ ring' = after.ring
                /\ sortedHashes' = after.sortedHashes
    /\ prior' = IF prior /= NoPrior /\ prior.id = nodeID /\ lastCall.kind /= "RemoveNode"
                THEN prior ELSE NoPrior
    /\ lastCall' = [kind |-> "RemoveNode", id |-> nodeID]
    /\ UNCHANGED <<virtualNodes, vnodeHash>>

\* sort.Search over hr.sortedHashes with the wrap to the first position
\* (indices from 1)
StartIndex(hash) ==
    LET hits == {i \in 1..Len(sortedHashes) : sortedHashes[i] >= hash}
    IN  IF hits = {} THEN 1 ELSE CHOOSE i \in hits : \A j \in hits : i <= j

GetNodeResult(hash) ==
    IF Len(sortedHashes) = 0
    THEN [node |-> "", err |-> ErrNoNodes]
    ELSE [node |-> ring[sortedHashes[StartIndex(hash)]], err |-> ""]

GetNode(hash) ==
    /\ lastCall' = [kind |-> "GetNode", hash |-> hash] @@ GetNodeResult(hash)
    /\ UNCHANGED <<virtualNodes, ring, sortedHashes, nodes, vnodeHash, prior>>

\* the loop of GetPreferenceList; idle counts the positions visited in a row
\* that added no node: once it reaches len(sortedHashes) every position has
\* been visited and none can add a node, so the loop never ends
RECURSIVE PreferenceWalk(_, _, _, _, _)
PreferenceWalk(n, idx, result, seen, idle) ==
    IF ~(Len(result) < n /\ Cardinality(seen) < Cardinality(nodes))
    THEN [list |-> result, err |-> "", returns |-> TRUE]
    ELSE IF idle >= Len(sortedHashes)
    THEN [list |-> result, err |-> "", returns |-> FALSE]
    ELSE LET nodeID == ring[sortedHashes[idx]]
             next   == (idx % Len(sortedHashes)) + 1
         IN  IF nodeID \notin seen
             THEN PreferenceWalk(n, next, Append(result, nodeID), seen \cup {nodeID}, 0)
             ELSE PreferenceWalk(n, next, result, seen, idle + 1)

GetPreferenceListResult(hash, n) ==
    IF Len(sortedHashes) = 0
    THEN [list |-> <<>>, err |-> ErrNoNodes, returns |-> TRUE]
    ELSE PreferenceWalk(IF n > Cardinality(nodes) THEN Cardinality(nodes) ELSE n,
                        StartIndex(hash), <<>>, {}, 0)

GetPreferenceList(hash, n) ==
    /\ lastCall' = [kind |-> "GetPreferenceList", hash |-> hash, n |-> n,
                    size |-> Cardinality(nodes)] @@ GetPreferenceListResult(hash, n)
    /\ UNCHANGED <<virtualNodes, ring, sortedHashes, nodes, vnodeHash, prior>>

(***************************************************************************)
(*        SORTED-TABLE FILE FORMAT (storage/sstable.go, bloom_filter.go)   *)
(***************************************************************************)
\* binary.Write of an unsigned integer in w bytes, little endian
RECURSIVE LE(_, _)
LE(n, w) == IF w = 0 THEN <<>> ELSE <<n % 256>> \o LE(n \div 256, w - 1)

\* binary.Read of an unsigned integer, little endian
RECURSIVE FromLE(_)
FromLE(bytes) == IF bytes = <<>> THEN 0 ELSE bytes[1] + (256 * FromLE(Tail(bytes)))

\* the n bytes of f that follow offset off
Slice(f, off, n) == SubSeq(f, off + 1, off + n)

\* the four bytes binary.Write makes of uint32(sstableMagicNumber), 0xDEADBEEF
sstableMagicNumber == <<239, 190, 173, 222>>

KeyBytes == {97, 98}
SSTKeys == UNION {[1..n -> KeyBytes] : n \in 0..MaxKeyLen}
\* the bytes of "__TOMBSTONE__"
TombstoneBytes == <<95, 95, 84, 79, 77, 66, 83, 84, 79, 78, 69, 95, 95>>
SSTValues == {<<>>, <<120>>, TombstoneBytes}

\* Go's comparison of two strings: byte by byte, a proper prefix is smaller
RECURSIVE BytesLess(_, _)
BytesLess(a, b) ==
    IF b = <<>> THEN FALSE
    ELSE IF a = <<>> THEN TRUE
    ELSE IF a[1] /= b[1] THEN a[1] < b[1]
    ELSE BytesLess(Tail(a), Tail(b))

\* bitwise exclusive or of two bytes
RECURSIVE Xor(_, _, _)
Xor(a, b, bits) ==
    IF bits = 0 THEN 0
    ELSE ((a + b) % 2) + (2 * Xor(a \div 2, b \div 2, bits - 1))

\* a uint32 as two 16-bit halves; FNV's 32-bit offset basis 0x811C9DC5
FNVOffset == [hi |-> 33052, lo |-> 40389]

\* h * 0x01000193 in uint32 arithmetic (the FNV prime is 2^24 + 403)
MulPrime(h) ==
    LET p == h.lo * 403 IN
    [hi |-> ((h.hi * 403) + (p \div 65536) + ((h.lo % 256) * 256)) % 65536,
     lo |-> p % 65536]

\* h ^ b for a byte b
XorByte(h, b) == [hi |-> h.hi, lo |-> ((h.lo \div 256) * 256) + Xor(h.lo % 256, b, 8)]

\* hashFNV32: FNV-1, multiply then xor, over the bytes from position i
RECURSIVE FNV32(_, _, _)
FNV32(h, data, i) ==
    IF i > Len(data) THEN h ELSE FNV32(XorByte(MulPrime(h), data[i]), data, i + 1)

hashFNV32(data) == FNV32(FNVOffset, data, 1)

\* hashFNV32a: FNV-1a, xor then multiply
RECURSIVE FNV32a(_, _, _)
FNV32a(h, data, i) ==
    IF i > Len(data) THEN h ELSE FNV32a(MulPrime(XorByte(h, data[i])), data, i + 1)

hashFNV32a(data) == FNV32a(FNVOffset, data, 1)

\* getHashes: hashes[i] = hash1 + i*hash2 in uint32 arithmetic
getHash(key, i) ==
    LET h1 == hashFNV32(key)
        h2 == hashFNV32a(key)
        lo == h1.lo + (i * h2.lo)
    IN  [hi |-> (h1.hi + (i * h2.hi) + (lo \div 65536)) % 65536, lo |-> lo % 65536]

\* hash % bf.size
BitPos(h, size) == (((((h.hi * 256) % size) * 256) % size) + (h.lo % size)) % size

NoBloom == [nil |-> TRUE]

\* the number of hash functions NewBloomFilter(10000, 0.01) computes
BloomHashes == 7

\* NewBloomFilter: size bits in (size + 7) / 8 zero bytes
NewBloomFilter(size, numHashes) ==
    [bits |-> [j \in 1..((size + 7) \div 8) |-> 0], size |-> size, numHashes |-> numHashes]

\* the bit positions Add sets and MayContain tests for a key
BloomPositions(bf, key) == {BitPos(getHash(key, i), bf.size) : i \in 0..(bf.numHashes - 1)}

\* bit off of a byte
BitSet(byte, off) == (byte \div (2 ^ off)) % 2 = 1

\* a byte with the bits of offs or-ed in, from bit off upwards
RECURSIVE OrBits(_, _, _)
OrBits(byte, offs, off) ==
    IF off > 7 THEN 0
    ELSE (IF BitSet(byte, off) \/ off \in offs THEN 2 ^ off ELSE 0)
         + OrBits(byte, offs, off + 1)

\* BloomFilter.Add
BloomAdd(bf, key) ==
    LET pos == BloomPositions(bf, key) IN
    [bf EXCEPT !.bits = [j \in 1..Len(bf.bits) |->
        OrBits(bf.bits[j], {p % 8 : p \in {q \in pos : q \div 8 = j - 1}}, 0)]]

\* BloomFilter.MayContain
MayContain(bf, key) ==
    \A p \in BloomPositions(bf, key) : BitSet(bf.bits[(p \div 8) + 1], p % 8)

\* BloomFilter.Serialize: [size:4][numHashes:4][bits]
Serialize(bf) == LE(bf.size, 4) \o LE(bf.numHashes, 4) \o bf.bits

\* DeserializeBloomFilter
DeserializeBloomFilter(data) ==
    IF Len(data) < 8 THEN NoBloom
    ELSE [bits |-> SubSeq(data, 9, Len(data)),
          size |-> FromLE(SubSeq(data, 1, 4)),
          numHashes |-> FromLE(SubSeq(data, 5, 8))]

\* NewSSTableWriter: nothing written, no Bloom filter yet
NewSSTableWriter ==
    [buf |-> <<>>, index |-> <<>>, dataOffset |-> 0, bloomFilter |-> NoBloom, numKeys |-> 0]

\* SSTableWriter.Write: dataOffset after the record of key and value
NextOffset(off, key, value) == off + 4 + Len(key) + 4 + Len(value)

\* SSTableWriter.Write
SSTableWrite(w, key, value) ==
    LET bf == IF w.bloomFilter = NoBloom THEN NewBloomFilter(BloomBits, BloomHashes)
              ELSE w.bloomFilter
    IN  [buf |-> w.buf \o LE(Len(key), 4) \o key \o LE(Len(value), 4) \o value,
         index |-> Append(w.index, [Key |-> key, Offset |-> w.dataOffset]),
         dataOffset |-> NextOffset(w.dataOffset, key, value),
         bloomFilter |-> BloomAdd(bf, key),
         numKeys |-> w.numKeys + 1]

\* the index block Finalize writes: per entry keyLen(4), key, offset(8)
RECURSIVE IndexBlock(_, _)
IndexBlock(index, i) ==
    IF i > Len(index) THEN <<>>
    ELSE LE(Len(index[i].Key), 4) \o index[i].Key \o LE(index[i].Offset, 8)
         \o IndexBlock(index, i + 1)

\* the length of the index block as Finalize computes it for bloomOffset
RECURSIVE IndexBlockLen(_, _)
IndexBlockLen(index, i) ==
    IF i > Len(index) THEN 0
    ELSE 4 + Len(index[i].Key) + 8 + IndexBlockLen(index, i + 1)

\* SSTableWriter.Finalize: the bytes of the file
Finalize(w) ==
    LET indexOffset == w.dataOffset
        bloomOffset == indexOffset + IndexBlockLen(w.index, 1)
        bloomData   == IF w.bloomFilter /= NoBloom THEN Serialize(w.bloomFilter) ELSE <<>>
    IN  w.buf \o IndexBlock(w.index, 1) \o bloomData
        \o LE(indexOffset, 8) \o LE(bloomOffset, 8) \o LE(Len(bloomData), 4)
        \o LE(Len(w.index), 4) \o sstableMagicNumber

\* flushToDisk's loop: Write for every entry from position i
RECURSIVE WriteAll(_, _, _)
WriteAll(w, entries, i) ==
    IF i > Len(entries) THEN w
    ELSE WriteAll(SSTableWrite(w, entries[i][1], entries[i][2]), entries, i + 1)

\* OpenSSTable's loop over the index block: n entries from offset off
RECURSIVE ReadIndex(_, _, _)
ReadIndex(f, off, n) ==
    IF n = 0 THEN <<>>
    ELSE LET keyLen == FromLE(Slice(f, off, 4)) IN
         <<[Key |-> Slice(f, off + 4, keyLen),
            Offset |-> FromLE(Slice(f, off + 4 + keyLen, 8))]>>
         \o ReadIndex(f, off + 4 + keyLen + 8, n - 1)

OpenError == [err |-> TRUE]

\* OpenSSTable on the bytes of a file
OpenSSTableFile(f) ==
    IF Len(f) < 28 THEN OpenError
    ELSE LET footer      == Slice(f, Len(f) - 28, 28)
             indexOffset == FromLE(SubSeq(footer, 1, 8))
             bloomOffset == FromLE(SubSeq(footer, 9, 16))
             bloomLen    == FromLE(SubSeq(footer, 17, 20))
             numEntries  == FromLE(SubSeq(footer, 21, 24))
         IN  IF SubSeq(footer, 25, 28) /= sstableMagicNumber THEN OpenError
             ELSE [err |-> FALSE,
                   index |-> ReadIndex(f, indexOffset, numEntries),
                   bloomFilter |-> IF bloomLen > 0
                                   THEN DeserializeBloomFilter(Slice(f, bloomOffset, bloomLen))
                                   ELSE NoBloom]

\* sort.Search with the test "greater than key" in place of "not smaller than key"
RECURSIVE SearchGreater(_, _, _, _)
SearchGreater(index, key, lo, hi) ==
    IF lo >= hi THEN lo
    ELSE LET h == (lo + hi) \div 2 IN
         IF ~BytesLess(key, index[h + 1].Key)
         THEN SearchGreater(index, key, h + 1, hi)
         ELSE SearchGreater(index, key, lo, h)

\* sort.Search(n, pred): binary search for the smallest index in lo..hi (0-based)
\* whose key is not smaller than key
RECURSIVE Search(_, _, _, _)
Search(index, key, lo, hi) ==
    IF lo >= hi THEN lo
    ELSE LET h == (lo + hi) \div 2 IN
         IF BytesLess(index[h + 1].Key, key)
         THEN Search(index, key, h + 1, hi)
         ELSE Search(index, key, lo, h)

NotFound == [value |-> <<>>, found |-> FALSE]

\* SSTable.Get on an opened table and the bytes of its file
SSTableGetBytes(sst, f, key) ==
    IF sst.bloomFilter /= NoBloom /\ ~MayContain(sst.bloomFilter, key) THEN NotFound
    ELSE LET idx == Search(sst.index, key, 0, Len(sst.index)) IN
         IF idx >= Len(sst.index) \/ sst.index[idx + 1].Key /= key THEN NotFound
         ELSE LET off      == sst.index[idx + 1].Offset
                  keyLen   == FromLE(Slice(f, off, 4))
                  valueLen == FromLE(Slice(f, off + 4 + keyLen, 4))
              IN  [value |-> Slice(f, off + 4 + keyLen + 4, valueLen), found |-> TRUE]

\* the keys of a set in ascending order
RECURSIVE Ascending(_)
Ascending(ks) ==
    IF ks = {} THEN <<>>
    ELSE LET k == CHOOSE x \in ks : \A y \in ks \ {x} : BytesLess(x, y) IN
         <<k>> \o Ascending(ks \ {k})

\* the inputs of a writer: up to MaxEntries distinct keys in ascending order,
\* each with a value
SSTInputs ==
    UNION {{[i \in 1..Len(Ascending(ks)) |-> <<Ascending(ks)[i], v[Ascending(ks)[i]]>>] :
               v \in [ks -> SSTValues]} :
           ks \in {x \in SUBSET SSTKeys : Cardinality(x) <= MaxEntries}}

SSTIdle == sstEntries = <<>> /\ sstFile = NoFile /\ sstReader = NoTable /\ sstGot = NoGet

SSTInit == sstEntries \in SSTInputs /\ sstFile = NoFile /\ sstReader = NoTable /\ sstGot = NoGet

\* NewSSTableWriter, Write for every entry, Finalize
SSTWriteFile ==
    /\ sstFile = NoFile
    /\ sstFile' = Finalize(WriteAll(NewSSTableWriter, sstEntries, 1))
    /\ UNCHANGED <<sstEntries, sstReader, sstGot>>

\* OpenSSTable of the finalized file
SSTOpen ==
    /\ sstFile /= NoFile
    /\ sstReader = NoTable
    /\ sstReader' = OpenSSTableFile(sstFile)
    /\ UNCHANGED <<sstEntries, sstFile, sstGot>>

\* SSTable.Get of any key on the opened table
SSTGet ==
    /\ sstReader /= NoTable
    /\ ~sstReader.err
    /\ \E k \in SSTKeys :
          sstGot' = [key |-> k] @@ SSTableGetBytes(sstReader, sstFile, k)
    /\ UNCHANGED <<sstEntries, sstFile, sstReader>>

(***************************************************************************)
(*          WRITE-AHEAD LOG FILE (WAL: Write, ReadAll, Reset)              *)
(***************************************************************************)
WALTimestamps == {1, 258}
WALKeys == {<<97>>, <<97, 98>>}

\* the entries LSMStore.Put and LSMStore.Delete hand to WAL.Write
WALEntries ==
    [Timestamp : WALTimestamps, Op : {OpPut}, Key : WALKeys, Value : {<<>>, <<120>>}]
    \cup [Timestamp : WALTimestamps, Op : {OpDelete}, Key : WALKeys, Value : {<<>>}]

\* WAL.Write: the bytes of one record
EncodeEntry(e) ==
    LE(e.Timestamp, 8) \o <<e.Op>> \o LE(Len(e.Key), 4) \o e.Key
    \o LE(Len(e.Value), 4) \o e.Value

\* io.ReadFull of n bytes (and ReadByte for n = 1) at offset off of f: io.EOF
\* when no byte is left, io.ErrUnexpectedEOF when fewer than n are left
ReadFull(f, off, n) ==
    IF n = 0 THEN "ok"
    ELSE IF Len(f) - off <= 0 THEN "EOF"
    ELSE IF Len(f) - off < n THEN "ErrUnexpectedEOF"
    ELSE "ok"

\* WAL.readEntry at offset off: the entry and the offset behind it, or the
\* error of the first read that fails
readEntry(f, off) ==
    LET keyOff   == off + 8 + 1 + 4
        keyLen   == FromLE(Slice(f, off + 9, 4))
        valOff   == keyOff + keyLen + 4
        valueLen == FromLE(Slice(f, keyOff + keyLen, 4))
    IN  IF ReadFull(f, off, 8) /= "ok" THEN [err |-> ReadFull(f, off, 8)]
        ELSE IF ReadFull(f, off + 8, 1) /= "ok" THEN [err |-> ReadFull(f, off + 8, 1)]
        ELSE IF ReadFull(f, off + 9, 4) /= "ok" THEN [err |-> ReadFull(f, off + 9, 4)]
        ELSE IF ReadFull(f, keyOff, keyLen) /= "ok" THEN [err |-> ReadFull(f, keyOff, keyLen)]
        ELSE IF ReadFull(f, keyOff + keyLen, 4) /= "ok"
             THEN [err |-> ReadFull(f, keyOff + keyLen, 4)]
        ELSE IF ReadFull(f, valOff, valueLen) /= "ok"
             THEN [err |-> ReadFull(f, valOff, valueLen)]
        ELSE [err |-> "",
              entry |-> [Timestamp |-> FromLE(Slice(f, off, 8)),
                         Op |-> f[off + 9],
                         Key |-> Slice(f, keyOff, keyLen),
                         Value |-> Slice(f, valOff, valueLen)],
              next |-> valOff + valueLen]

\* WAL.ReadAll from offset off with the entries read so far: io.EOF ends the
\* loop, any other error is returned without entries
RECURSIVE ReadAllFrom(_, _, _)
ReadAllFrom(f, off, entries) ==
    LET r == readEntry(f, off) IN
    IF r.err = "EOF" THEN [entries |-> entries, err |-> FALSE]
    ELSE IF r.err /= "" THEN [entries |-> <<>>, err |-> TRUE]
    ELSE ReadAllFrom(f, r.next, Append(entries, r.entry))

ReadAll(f) == ReadAllFrom(f, 0, <<>>)

\* the bytes of the records of a list of entries
RECURSIVE EncodeEntries(_, _)
EncodeEntries(entries, i) ==
    IF i > Len(entries) THEN <<>>
    ELSE EncodeEntry(entries[i]) \o EncodeEntries(entries, i + 1)

\* the file ends with a complete record
Intact == walFile = EncodeEntries(walLog, 1)

\* WAL.Write returns nil: the record is at the end of the file
WALWrite(e) ==
    /\ Len(walLog) < MaxRecords
    /\ walFile' = walFile \o EncodeEntry(e)
    /\ walLog' = Append(walLog, e)
    /\ walRead' = NoGet
    /\ UNCHANGED walResets

\* the process stops in the middle of WAL.Write: the first n bytes of the
\* record are in the file
WALTornWrite(e, n) ==
    /\ Len(walLog) < MaxRecords
    /\ n \in 1..(Len(EncodeEntry(e)) - 1)
    /\ walFile' = walFile \o SubSeq(EncodeEntry(e), 1, n)
    /\ walRead' = NoGet
    /\ UNCHANGED <<walLog, walResets>>

\* WAL.ReadAll (LSMStore.recover fails when it returns an error)
WALReadAll ==
    /\ walRead' = ReadAll(walFile)
    /\ UNCHANGED <<walFile, walLog, walResets>>

\* WAL.Reset
WALResetFile ==
    /\ walResets.count < MaxResets
    /\ walFile' = WALReset(walFile)
    /\ walLog' = <<>>
    /\ walResets' = [count |-> walResets.count + 1, cut |-> walResets.cut \o walLog]
    /\ walRead' = NoGet

WALIdle ==
    /\ walFile = <<>> /\ walLog = <<>> /\ walRead = NoGet
    /\ walResets = [count |-> 0, cut |-> <<>>]

(***************************************************************************)
(*        HINTED HANDOFF STORE (HintedHandoff.StoreHint and friends)       *)
(***************************************************************************)
HintTargets == {"node2", "node3"}
HintKeys == {"k1", "k2"}
CorruptFile == [corrupt |-> TRUE]

\* StoreHint's capacity test with "more than" in place of "at least"
OverCapacity(hs, limit, node) == Len(hs[node]) > limit

\* StoreHint, lines 67-70: the target already holds maxHints hints
AtCapacity(hs, limit, node) == Len(hs[node]) >= limit

\* persistHintsLocked: the hints file of the node afterwards; an error of
\* os.WriteFile, which StoreHint only logs, leaves the old file or a cut one
PersistOutcomes(hs, node) ==
    IF hs[node] = <<>> THEN {hintFiles[node]}
    ELSE {[hints |-> hs[node]], hintFiles[node], CorruptFile}

\* HintedHandoff.StoreHint, the whole call under hh.mu
HHStoreHint(node, key) ==
    IF AtCapacity(hhHints, hhMax, node)
    THEN /\ hhLast' = [kind |-> "StoreHint", node |-> node, err |-> TRUE]
         /\ UNCHANGED <<hhHints, hintFiles, hhMax>>
    ELSE LET hs == [hhHints EXCEPT ![node] = Append(@, Hint(node, key, "v", 1, 1))] IN
         /\ hhHints' = hs
         /\ \E f \in PersistOutcomes(hs, node) :
               hintFiles' = [hintFiles EXCEPT ![node] = f]
         /\ hhLast' = [kind |-> "StoreHint", node |-> node, err |-> FALSE]
         /\ UNCHANGED hhMax

\* HintedHandoff.ClearHints that leaves the hints file in the directory
HHClearHintsKeepFile(node) ==
    /\ hhHints' = [hhHints EXCEPT ![node] = <<>>]
    /\ hhLast' = [kind |-> "ClearHints", node |-> node, err |-> FALSE]
    /\ UNCHANGED <<hintFiles, hhMax>>

\* HintedHandoff.ClearHints: drop the list and remove the file
HHClearHints(node) ==
    /\ hhHints' = [hhHints EXCEPT ![node] = <<>>]
    /\ hintFiles' = [hintFiles EXCEPT ![node] = NoFile]
    /\ hhLast' = [kind |-> "ClearHints", node |-> node, err |-> FALSE]
    /\ UNCHANGED hhMax

\* HintedHandoff.RemoveHint: drop the hint at hintIndex (0-based), nothing is
\* written
HHRemoveHint(node, hintIndex) ==
    /\ hhHints' = IF hintIndex >= Len(hhHints[node]) THEN hhHints
                  ELSE [hhHints EXCEPT ![node] =
                           SubSeq(@, 1, hintIndex) \o SubSeq(@, hintIndex + 2, Len(@))]
    /\ hhLast' = [kind |-> "RemoveHint", node |-> node, err |-> FALSE,
                   removed |-> hintIndex < Len(hhHints[node])]
    /\ UNCHANGED <<hintFiles, hhMax>>

\* loadHints: per target the list of the file whose first hint names the
\* target; files that cannot be read or parsed and empty lists are skipped
LoadHints ==
    [n \in HintTargets |->
        LET fs == {m \in HintTargets :
                      /\ hintFiles[m] /= NoFile /\ hintFiles[m] /= CorruptFile
                      /\ Len(hintFiles[m].hints) > 0
                      /\ hintFiles[m].hints[1].TargetNode = n}
        IN  IF fs = {} THEN <<>> ELSE hintFiles[CHOOSE m \in fs : TRUE].hints]

\* NewHintedHandoff on the directory of the old instance
NewHintedHandoff ==
    /\ hhHints' = LoadHints
    /\ hhMax' = maxHints
    /\ hhLast' = [kind |-> "NewHintedHandoff", node |-> "", err |-> FALSE]
    /\ UNCHANGED hintFiles

HintIdle ==
    /\ hhHints = [n \in HintTargets |-> <<>>]
    /\ hintFiles = [n \in HintTargets |-> NoFile]
    /\ hhMax = maxHints
    /\ hhLast = NoCall

\* NewHintedHandoff on an empty directory, then maxHints set to a small number
HintInit ==
    /\ hhHints = [n \in HintTargets |-> <<>>]
    /\ hintFiles = [n \in HintTargets |-> NoFile]
    /\ hhMax \in 1..MaxHintCap
    /\ hhLast = NoCall

FileIdle == SSTIdle /\ WALIdle /\ HintIdle

(***************************************************************************)
(*                            SPECIFICATIONS                               *)
(***************************************************************************)
Init == LSMInit /\ RaftInit(3) /\ CoordInit /\ PureIdle /\ RingIdle /\ FileIdle

NotLSM == <<lsmxVars, raftVars, coordVars, pureVars, ringVars, fileVars, statVars>>

\* the engine used by one client thread at a time
LSMSeqNext ==
    \/ PutWAL("w1") /\ UNCHANGED NotLSM
    \/ DeleteWAL("w1") /\ UNCHANGED NotLSM
    \/ MemApply("w1") /\ UNCHANGED NotLSM
    \/ FlushBegin("w1") /\ UNCHANGED NotLSM
    \/ FlushToDisk("w1") /\ UNCHANGED NotLSM
    \/ FlushClear("w1") /\ UNCHANGED NotLSM
    \/ FlushReset("w1") /\ UNCHANGED NotLSM
    \/ Get("w1") /\ UNCHANGED NotLSM
    \/ Close /\ UNCHANGED NotLSM
    \/ Open /\ UNCHANGED NotLSM

SpecLSM == Init /\ [][LSMSeqNext]_vars

\* the engine used by concurrent client threads
LSMConcNext ==
    \/ \E t \in Threads : PutWAL(t) /\ UNCHANGED NotLSM
    \/ \E t \in Threads : DeleteWAL(t) /\ UNCHANGED NotLSM
    \/ \E t \in Threads : MemApply(t) /\ UNCHANGED NotLSM
    \/ \E t \in Threads : FlushBegin(t) /\ UNCHANGED NotLSM
    \/ \E t \in Threads : FlushToDisk(t) /\ UNCHANGED NotLSM
    \/ \E t \in Threads : FlushClear(t) /\ UNCHANGED NotLSM
    \/ \E t \in Threads : FlushReset(t) /\ UNCHANGED NotLSM
    \/ \E t \in Threads : Get(t) /\ UNCHANGED NotLSM
    \/ Close /\ UNCHANGED NotLSM
    \/ Open /\ UNCHANGED NotLSM

SpecLSMConc == Init /\ [][LSMConcNext]_vars

NotEngine == <<raftVars, coordVars, pureVars, ringVars, fileVars, statVars>>

\* the table ids whose file was finalized by the step
NewTables == {i \in TableIDs : files'[i] /= files[i] /\ files'[i] /= NoFile
                                  /\ files'[i] /= PartialFile}

\* one client thread, the compaction manager and one reader thread
CompactNext ==
    \/ PutWAL("w1") /\ UNCHANGED lsmxVars /\ UNCHANGED NotEngine
    \/ DeleteWAL("w1") /\ UNCHANGED lsmxVars /\ UNCHANGED NotEngine
    \/ MemApply("w1") /\ UNCHANGED lsmxVars /\ UNCHANGED NotEngine
    \/ FlushBegin("w1") /\ UNCHANGED lsmxVars /\ UNCHANGED NotEngine
    \/ /\ FlushToDisk("w1")
       /\ finalized' = finalized \cup NewTables
       /\ UNCHANGED <<compaction, reading, flushErr>>
       /\ UNCHANGED NotEngine
    \/ FlushClear("w1") /\ UNCHANGED lsmxVars /\ UNCHANGED NotEngine
    \/ FlushReset("w1") /\ UNCHANGED lsmxVars /\ UNCHANGED NotEngine
    \/ CompactBegin /\ UNCHANGED NotEngine
    \/ CompactWrite /\ UNCHANGED NotEngine
    \/ CompactSwap /\ UNCHANGED NotEngine
    \/ CompactUnlink /\ UNCHANGED NotEngine
    \/ \E k \in Keys : ReadBegin(k) /\ UNCHANGED NotEngine
    \/ ReadTables /\ UNCHANGED NotEngine
    \/ /\ compaction = NoCompaction
       /\ reading = NoRead \/ reading.pc = "done"
       /\ Close
       /\ finalized' = finalized \cup NewTables
       /\ UNCHANGED <<compaction, reading, flushErr>>
       /\ UNCHANGED NotEngine
    \/ Open /\ UNCHANGED lsmxVars /\ UNCHANGED NotEngine

SpecCompact == Init /\ [][CompactNext]_vars

\* the active memtable and the WAL as they are when maybeFlush seals the memtable
BeforeFlush == [failed |-> FALSE, memTable |-> memTable, wal |-> wal]

\* LSMStore.Put, first half, where the value may also be one that fills the
\* memtable up to the flush threshold by itself
PutAnyWAL(t) ==
    \E k \in Keys, v \in Values \cup {LongValue} : WriteWAL(t, PutEntry(k, v))

\* one client thread whose flushes may fail in flushToDisk; NewLSMStore returns
\* the error of loadSSTables while a table file that was not finalized exists
FlushFailNext ==
    \/ PutAnyWAL("w1") /\ UNCHANGED lsmxVars /\ UNCHANGED NotEngine
    \/ DeleteWAL("w1") /\ UNCHANGED lsmxVars /\ UNCHANGED NotEngine
    \/ MemApply("w1") /\ UNCHANGED lsmxVars /\ UNCHANGED NotEngine
    \/ /\ FlushBegin("w1")
       /\ flushErr' = IF memTable.size < MemTableSizeThreshold THEN flushErr
                       ELSE BeforeFlush
       /\ UNCHANGED <<compaction, reading, finalized>>
       /\ UNCHANGED NotEngine
    \/ /\ FlushToDisk("w1")
       /\ finalized' = finalized \cup NewTables
       /\ UNCHANGED <<compaction, reading, flushErr>>
       /\ UNCHANGED NotEngine
    \/ /\ FlushFail("w1")
       /\ flushErr' = [flushErr EXCEPT !.failed = TRUE]
       /\ UNCHANGED <<compaction, reading, finalized>>
       /\ UNCHANGED NotEngine
    \/ FlushClear("w1") /\ UNCHANGED lsmxVars /\ UNCHANGED NotEngine
    \/ /\ FlushReset("w1")
       /\ flushErr' = NoFlushErr
       /\ UNCHANGED <<compaction, reading, finalized>>
       /\ UNCHANGED NotEngine
    \/ Get("w1") /\ UNCHANGED lsmxVars /\ UNCHANGED NotEngine
    \/ /\ Close
       /\ finalized' = finalized \cup NewTables
       /\ UNCHANGED <<compaction, reading, flushErr>>
       /\ UNCHANGED NotEngine
    \/ /\ \A i \in TableIDs : files[i] /= PartialFile
       /\ Open
       /\ flushErr' = NoFlushErr
       /\ UNCHANGED <<compaction, reading, finalized>>
       /\ UNCHANGED NotEngine

SpecFlushFail == Init /\ [][FlushFailNext]_vars

\* one client thread that writes and flushes, and one reader thread
ReadNext ==
    \/ PutWAL("w1") /\ UNCHANGED lsmxVars /\ UNCHANGED NotEngine
    \/ DeleteWAL("w1") /\ UNCHANGED lsmxVars /\ UNCHANGED NotEngine
    \/ MemApply("w1") /\ UNCHANGED lsmxVars /\ UNCHANGED NotEngine
    \/ FlushBegin("w1") /\ UNCHANGED lsmxVars /\ UNCHANGED NotEngine
    \/ /\ FlushToDisk("w1")
       /\ finalized' = finalized \cup NewTables
       /\ UNCHANGED <<compaction, reading, flushErr>>
       /\ UNCHANGED NotEngine
    \/ FlushClear("w1") /\ UNCHANGED lsmxVars /\ UNCHANGED NotEngine
    \/ FlushReset("w1") /\ UNCHANGED lsmxVars /\ UNCHANGED NotEngine
    \/ \E k \in Keys : ReadBegin(k) /\ UNCHANGED NotEngine
    \/ ReadTables /\ UNCHANGED NotEngine
    \/ /\ reading = NoRead \/ reading.pc = "done"
       /\ Close
       /\ finalized' = finalized \cup NewTables
       /\ UNCHANGED <<compaction, reading, flushErr>>
       /\ UNCHANGED NotEngine
    \/ Open /\ UNCHANGED lsmxVars /\ UNCHANGED NotEngine

SpecRead == Init /\ [][ReadNext]_vars

\* no Put, Delete or flush is in progress
NoWriter == pc["w1"] = "idle" /\ flushMu = {}

\* one client thread and the compaction manager, where a compaction starts
\* only while no write or flush is in progress and none starts while it runs
QuietCompactNext ==
    \/ compaction = NoCompaction /\ PutWAL("w1") /\ UNCHANGED lsmxVars /\ UNCHANGED NotEngine
    \/ compaction = NoCompaction /\ DeleteWAL("w1") /\ UNCHANGED lsmxVars /\ UNCHANGED NotEngine
    \/ MemApply("w1") /\ UNCHANGED lsmxVars /\ UNCHANGED NotEngine
    \/ FlushBegin("w1") /\ UNCHANGED lsmxVars /\ UNCHANGED NotEngine
    \/ /\ FlushToDisk("w1")
       /\ finalized' = finalized \cup NewTables
       /\ UNCHANGED <<compaction, reading, flushErr>>
       /\ UNCHANGED NotEngine
    \/ FlushClear("w1") /\ UNCHANGED lsmxVars /\ UNCHANGED NotEngine
    \/ FlushReset("w1") /\ UNCHANGED lsmxVars /\ UNCHANGED NotEngine
    \/ NoWriter /\ CompactBegin /\ UNCHANGED NotEngine
    \/ CompactWrite /\ UNCHANGED NotEngine
    \/ CompactSwap /\ UNCHANGED NotEngine
    \/ CompactUnlink /\ UNCHANGED NotEngine
    \/ /\ compaction = NoCompaction
       /\ Close
       /\ finalized' = finalized \cup NewTables
       /\ UNCHANGED <<compaction, reading, flushErr>>
       /\ UNCHANGED NotEngine
    \/ Open /\ UNCHANGED lsmxVars /\ UNCHANGED NotEngine

SpecQuietCompact == Init /\ [][QuietCompactNext]_vars

NotCompactor == <<raftVars, coordVars, pureVars, ringVars, fileVars>>

\* one client thread and the compaction manager with its statistics; a
\* compaction is started by the periodic check or by ForceCompact while no
\* write or flush is in progress
CompactStatsNext ==
    \/ compaction = NoCompaction /\ PutWAL("w1") /\ UNCHANGED lsmxVars /\ UNCHANGED NotEngine
    \/ compaction = NoCompaction /\ DeleteWAL("w1") /\ UNCHANGED lsmxVars /\ UNCHANGED NotEngine
    \/ MemApply("w1") /\ UNCHANGED lsmxVars /\ UNCHANGED NotEngine
    \/ FlushBegin("w1") /\ UNCHANGED lsmxVars /\ UNCHANGED NotEngine
    \/ /\ FlushToDisk("w1")
       /\ finalized' = finalized \cup NewTables
       /\ UNCHANGED <<compaction, reading, flushErr>>
       /\ UNCHANGED NotEngine
    \/ FlushClear("w1") /\ UNCHANGED lsmxVars /\ UNCHANGED NotEngine
    \/ FlushReset("w1") /\ UNCHANGED lsmxVars /\ UNCHANGED NotEngine
    \/ NoWriter /\ MaybeCompact /\ UNCHANGED NotCompactor
    \/ NoWriter /\ ForceCompact /\ UNCHANGED NotCompactor
    \/ CompactMerge /\ UNCHANGED NotCompactor
    \/ CompactSwap /\ UNCHANGED cm /\ UNCHANGED NotCompactor
    \/ CompactReturn /\ UNCHANGED NotCompactor

SpecCompactStats == Init /\ [][CompactStatsNext]_vars

NotRaft == <<lsmVars, lsmxVars, coordVars, pureVars, ringVars, fileVars, statVars>>

RaftNext ==
    \/ \E i \in Nodes :
           Cardinality(started) < MaxElections /\ Timeout(i) /\ UNCHANGED NotRaft
    \/ \E m \in voteReqs : HandleRequestVote(m) /\ UNCHANGED NotRaft
    \/ \E m \in voteResps : RecvVoteResponse(m) /\ UNCHANGED NotRaft
    \/ \E i \in Nodes : ElectionEnd(i) /\ UNCHANGED NotRaft
    \/ \E i \in Nodes : SendHeartbeats(i) /\ UNCHANGED NotRaft
    \/ \E i \in Nodes : HeartbeatTick(i) /\ UNCHANGED NotRaft
    \/ \E m \in appendReqs : HandleAppendEntries(m) /\ UNCHANGED NotRaft
    \/ \E m \in appendResps : RecvAppendResponse(m) /\ UNCHANGED NotRaft

\* a cluster of three nodes
SpecRaft == Init /\ [][RaftNext]_vars

\* The RequestVote handler of one node, called with arbitrary requests of its
\* two peers; the node's log and term are set beforehand as the handler tests
\* do (log entries are appended and currentTerm is assigned directly).
Voter == "n1"
Logs ==
    {l \in UNION {[1..n -> 0..MaxTerm] : n \in 1..(MaxLogIndex + 1)} :
        /\ l[1] = 0
        /\ \A k \in 2..Len(l) : l[k] >= 1 /\ l[k] >= l[k - 1]}
VoteRequests ==
    [from : Cluster(3) \ {Voter}, to : {Voter}, term : 1..(MaxTerm + 1),
     lastLogIndex : 0..MaxLogIndex, lastLogTerm : 0..MaxTerm]

InitVote ==
    /\ LSMInit /\ CoordInit /\ PureIdle /\ RingIdle /\ FileIdle
    /\ peers = [i \in Cluster(3) |-> Cluster(3) \ {i}]
    /\ log \in [Cluster(3) -> Logs]
    /\ \A i \in Cluster(3) \ {Voter} : log[i] = <<0>>
    /\ currentTerm \in [Cluster(3) -> 0..MaxTerm]
    /\ currentTerm[Voter] >= log[Voter][Len(log[Voter])]
    /\ \A i \in Cluster(3) \ {Voter} : currentTerm[i] = 0
    /\ votedFor = [i \in Cluster(3) |-> ""]
    /\ state = [i \in Cluster(3) |-> Follower]
    /\ election = [i \in Cluster(3) |-> NoElection]
    /\ voteReqs = {}
    /\ voteResps = {}
    /\ appendReqs = {}
    /\ appendResps = {}
    /\ started = {}
    /\ leaders = {}
    /\ votes = {}
    /\ timers = [i \in Cluster(3) |-> StartTimers]
    /\ down = {}

\* a peer's RequestVote call reaches the node; the previous response has been
\* returned to its caller
RequestVoteArrives(m) ==
    /\ voteReqs = {}
    /\ Cardinality(votes) < MaxVotes
    /\ voteReqs' = {m}
    /\ voteResps' = {}
    /\ UNCHANGED <<peers, currentTerm, votedFor, log, state, election, appendReqs,
                   appendResps, started, leaders, votes, timers, down>>

VoteNext ==
    \/ \E m \in VoteRequests : RequestVoteArrives(m) /\ UNCHANGED NotRaft
    \/ \E m \in voteReqs : HandleRequestVote(m) /\ UNCHANGED NotRaft
SpecVote == InitVote /\ [][VoteNext]_vars

\* a cluster of three nodes whose leader may be shut down
ReElectNext ==
    \/ \E i \in Nodes :
           Cardinality(started) < MaxElections /\ Timeout(i) /\ UNCHANGED NotRaft
    \/ \E m \in voteReqs : HandleRequestVote(m) /\ UNCHANGED NotRaft
    \/ \E m \in voteResps : RecvVoteResponse(m) /\ UNCHANGED NotRaft
    \/ \E i \in Nodes : ElectionEnd(i) /\ UNCHANGED NotRaft
    \/ \E i \in Nodes : SendHeartbeats(i) /\ UNCHANGED NotRaft
    \/ \E i \in Nodes : HeartbeatTick(i) /\ UNCHANGED NotRaft
    \/ \E m \in appendReqs : HandleAppendEntries(m) /\ UNCHANGED NotRaft
    \/ \E m \in appendResps : RecvAppendResponse(m) /\ UNCHANGED NotRaft
    \/ \E i \in Nodes :
           state[i] = Leader /\ down = {} /\ Shutdown(i) /\ UNCHANGED NotRaft
    \/ \E m \in voteReqs \cup appendReqs : RpcError(m) /\ UNCHANGED NotRaft
SpecReElect == Init /\ [][ReElectNext]_vars

\* A cluster of three nodes under the timing the election relies on: every
\* RPC is answered before the vote loop's deadline, and the randomized
\* timeouts let a node time out alone once MaxSplit candidacies have
\* overlapped.  Every enabled step is eventually taken.
Quiet == voteReqs = {} /\ voteResps = {} /\ \A n \in Nodes : election[n] = NoElection
Answered(i) ==
    /\ \A m \in voteReqs : m.from /= i
    /\ \A m \in voteResps : m.to /= i
MayTimeout ==
    \/ Cardinality(started) < MaxSplit
    \/ Quiet /\ Cardinality(started) < MaxSplit + MaxSolo

FairTimeout      == \E i \in Nodes : MayTimeout /\ Timeout(i) /\ UNCHANGED NotRaft
FairRequestVote  == \E m \in voteReqs : HandleRequestVote(m) /\ UNCHANGED NotRaft
FairVoteResponse == \E m \in voteResps : RecvVoteResponse(m) /\ UNCHANGED NotRaft
FairElectionEnd  == \E i \in Nodes : Answered(i) /\ ElectionEnd(i) /\ UNCHANGED NotRaft
FairHeartbeats   == \E i \in Nodes : SendHeartbeats(i) /\ UNCHANGED NotRaft
FairTick         == \E i \in Nodes : HeartbeatTick(i) /\ UNCHANGED NotRaft
FairAppend       == \E m \in appendReqs : HandleAppendEntries(m) /\ UNCHANGED NotRaft
FairAppendResponse == \E m \in appendResps : RecvAppendResponse(m) /\ UNCHANGED NotRaft

FairNext ==
    \/ FairTimeout
    \/ FairRequestVote
    \/ FairVoteResponse
    \/ FairElectionEnd
    \/ FairHeartbeats
    \/ FairTick
    \/ FairAppend
    \/ FairAppendResponse
SpecRaftFair ==
    /\ Init /\ [][FairNext]_vars
    /\ WF_vars(FairTimeout) /\ WF_vars(FairRequestVote) /\ WF_vars(FairVoteResponse)
    /\ WF_vars(FairElectionEnd) /\ WF_vars(FairHeartbeats) /\ WF_vars(FairTick)
    /\ WF_vars(FairAppend) /\ WF_vars(FairAppendResponse)

\* a cluster of four nodes
Init4 == LSMInit /\ RaftInit(4) /\ CoordInit /\ PureIdle /\ RingIdle /\ FileIdle
ElectionNext ==
    \/ \E i \in Nodes :
           Cardinality(started) < MaxCandidates /\ Timeout(i) /\ UNCHANGED NotRaft
    \/ \E m \in voteReqs : HandleRequestVote(m) /\ UNCHANGED NotRaft
    \/ \E m \in voteResps : RecvVoteResponse(m) /\ UNCHANGED NotRaft
    \/ \E i \in Nodes : ElectionEnd(i) /\ UNCHANGED NotRaft
SpecRaft4 == Init4 /\ [][ElectionNext]_vars

\* clusters of every size from the single node to MaxNodes nodes
InitAnySize ==
    /\ LSMInit /\ CoordInit /\ PureIdle /\ RingIdle /\ FileIdle
    /\ \E n \in 1..MaxNodes : RaftInit(n)
SpecRaftAnySize == InitAnySize /\ [][ElectionNext]_vars

\* the table ids of the files of a data directory left behind by earlier runs,
\* and the contents a finalized table file may have
DirIDs == {2, 9, 10}
TableContents == [Keys -> {NONE, TOMBSTONE} \cup Values]

\* a closed engine's data directory with any set of table files and an empty WAL
InitDir ==
    /\ RaftInit(3) /\ CoordInit /\ PureIdle /\ RingIdle /\ FileIdle
    /\ memTable = NewMemTable
    /\ immutableTable = NoTable
    /\ sstables = <<>>
    /\ wal = <<>>
    /\ files \in [DirIDs -> TableContents \cup {NoFile}]
    /\ nextTableID = 0
    /\ flushMu = {}
    /\ phase = "closed"
    /\ pc = [t \in Threads |-> "idle"]
    /\ opEntry = [t \in Threads |-> NoEntry]
    /\ tableToFlush = [t \in Threads |-> NoTable]
    /\ tableID = [t \in Threads |-> 0]
    /\ lastGet = NoGet
    /\ expect = [k \in Keys |-> NONE]
    /\ reopened = FALSE
    /\ compaction = NoCompaction
    /\ reading = NoRead
    /\ finalized = {}
    /\ flushErr = NoFlushErr
    /\ cm = NewCompactionManager

\* the engine opened on the directory, read, and closed
DirNext ==
    \/ Open /\ UNCHANGED lsmxVars /\ UNCHANGED NotEngine
    \/ Get("w1") /\ UNCHANGED lsmxVars /\ UNCHANGED NotEngine
    \/ Close /\ UNCHANGED lsmxVars /\ UNCHANGED NotEngine

SpecOpenDir == InitDir /\ [][DirNext]_vars

NotCoord == <<lsmVars, lsmxVars, raftVars, pureVars, ringVars, fileVars, statVars>>

\* the order of the preference list
PreferenceOrder == [i \in 1..ReplicationFactor |-> <<"r1", "r2", "r3">>[i]]

CoordNext ==
    \/ \E v \in CoordValues, o \in [Replicas -> WriteOutcomes], ord \in Orders :
           clock < MaxPuts /\ CoordPut(CoordKey, v, o, ord) /\ UNCHANGED NotCoord
    \/ \E o \in [Replicas -> ReadOutcomes], ord \in Orders :
           CoordGet(CoordKey, o, ord) /\ UNCHANGED NotCoord
    \/ \E o \in [Replicas -> WriteOutcomes], ord \in Orders :
           CoordDelete(CoordKey, o, ord) /\ UNCHANGED NotCoord
    \/ Return /\ UNCHANGED NotCoord

\* one coordinator and the three replicas of a key: every failure kind and
\* every arrival order of the replica results
SpecCoord == Init /\ [][CoordNext]_vars

RepairNext ==
    \/ \E v \in CoordValues, o \in [Replicas -> {"ack", "nack"}] :
           clock < MaxClock /\ CoordPut(CoordKey, v, o, PreferenceOrder)
           /\ UNCHANGED NotCoord
    \/ \E o \in [Replicas -> ReadOutcomes], ord \in Orders :
           CoordGet(CoordKey, o, ord) /\ UNCHANGED NotCoord
    \/ \E o \in [Replicas -> {"ack", "nack"}] :
           CoordDelete(CoordKey, o, PreferenceOrder) /\ UNCHANGED NotCoord
    \/ Return /\ UNCHANGED NotCoord
    \/ \E m \in repairs : DeliverRepair(m) /\ UNCHANGED NotCoord
    \/ \E m \in repairs : FailRepair(m) /\ UNCHANGED NotCoord

\* one coordinator, the three replicas and the read-repair writes in flight:
\* a failed replica call is one the replica refused
SpecRepair == Init /\ [][RepairNext]_vars

NotPure == <<lsmVars, lsmxVars, raftVars, coordVars, ringVars, fileVars, statVars>>

PureNext ==
    \/ Resolve /\ UNCHANGED NotPure
    \/ GetCollected /\ UNCHANGED NotPure

\* the replication functions applied to every bounded list of responses
InitPure == LSMInit /\ RaftInit(3) /\ CoordInit /\ PureInit /\ RingIdle /\ FileIdle
SpecPure == InitPure /\ [][PureNext]_vars

NotRing == <<lsmVars, lsmxVars, raftVars, coordVars, pureVars, fileVars, statVars>>

RingNext ==
    \/ \E nodeID \in RingNodeIDs : AddNode(nodeID) /\ UNCHANGED NotRing
    \/ \E nodeID \in RingNodeIDs : RemoveNode(nodeID) /\ UNCHANGED NotRing
    \/ \E hash \in Positions : GetNode(hash) /\ UNCHANGED NotRing
    \/ \E hash \in Positions, n \in 0..MaxWanted :
          GetPreferenceList(hash, n) /\ UNCHANGED NotRing

\* one hash ring under any sequence of its calls, for every assignment of
\* positions to the virtual nodes
InitRing == LSMInit /\ RaftInit(3) /\ CoordInit /\ PureIdle /\ RingInit /\ FileIdle
SpecRing == InitRing /\ [][RingNext]_vars

NotSST == <<lsmVars, lsmxVars, raftVars, coordVars, pureVars, ringVars, walVars, hintVars,
            statVars>>

\* one sorted table written, finalized, opened and read
SSTNext ==
    \/ SSTWriteFile /\ UNCHANGED NotSST
    \/ SSTOpen /\ UNCHANGED NotSST
    \/ SSTGet /\ UNCHANGED NotSST

InitSST ==
    /\ LSMInit /\ RaftInit(3) /\ CoordInit /\ PureIdle /\ RingIdle
    /\ SSTInit /\ WALIdle /\ HintIdle

SpecSST == InitSST /\ [][SSTNext]_vars

NotWAL == <<lsmVars, lsmxVars, raftVars, coordVars, pureVars, ringVars, sstVars, hintVars,
            statVars>>

\* the WAL file written, reset and replayed
WALNext ==
    \/ \E e \in WALEntries : WALWrite(e) /\ UNCHANGED NotWAL
    \/ WALResetFile /\ UNCHANGED NotWAL
    \/ WALReadAll /\ UNCHANGED NotWAL

SpecWAL == Init /\ [][WALNext]_vars

\* the WAL file where the process may stop in the middle of a Write; the file
\* is then replayed as the next start finds it
WALCrashNext ==
    \/ \E e \in WALEntries : Intact /\ WALWrite(e) /\ UNCHANGED NotWAL
    \/ \E e \in WALEntries : \E n \in 1..(Len(EncodeEntry(e)) - 1) :
          Intact /\ WALTornWrite(e, n) /\ UNCHANGED NotWAL
    \/ WALReadAll /\ UNCHANGED NotWAL

SpecWALCrash == Init /\ [][WALCrashNext]_vars

NotHints == <<lsmVars, lsmxVars, raftVars, coordVars, pureVars, ringVars, sstVars, walVars,
              statVars>>

\* callers of the hinted handoff store, one call after the other as hh.mu
\* orders them
HintNext ==
    \/ \E n \in HintTargets, k \in HintKeys : HHStoreHint(n, k) /\ UNCHANGED NotHints
    \/ \E n \in HintTargets : HHClearHints(n) /\ UNCHANGED NotHints
    \/ \E n \in HintTargets, i \in 0..MaxHintCap : HHRemoveHint(n, i) /\ UNCHANGED NotHints

InitHints ==
    /\ LSMInit /\ RaftInit(3) /\ CoordInit /\ PureIdle /\ RingIdle
    /\ SSTIdle /\ WALIdle /\ HintInit

SpecHints == InitHints /\ [][HintNext]_vars

\* os.WriteFile of persistHintsLocked succeeds in the step
PersistSucceeds ==
    \A n \in HintTargets :
       hhHints'[n] /= hhHints[n] => hintFiles'[n] = [hints |-> hhHints'[n]]

\* StoreHint while the target holds at most MaxHintCap hints, on a disk that
\* takes every write
StoreHintPersisted ==
    \E n \in HintTargets, k \in HintKeys :
       /\ Len(hhHints[n]) <= MaxHintCap
       /\ HHStoreHint(n, k)
       /\ PersistSucceeds

\* StoreHint and ClearHints, and a new instance opened on the directory
HintReopenNext ==
    \/ StoreHintPersisted /\ UNCHANGED NotHints
    \/ \E n \in HintTargets : HHClearHints(n) /\ UNCHANGED NotHints
    \/ NewHintedHandoff /\ UNCHANGED NotHints

SpecHintsReopen == InitHints /\ [][HintReopenNext]_vars

\* StoreHint, ClearHints and RemoveHint, and a new instance opened on the
\* directory
HintRemoveNext ==
    \/ StoreHintPersisted /\ UNCHANGED NotHints
    \/ \E n \in HintTargets : HHClearHints(n) /\ UNCHANGED NotHints
    \/ \E n \in HintTargets, i \in 0..MaxHintCap : HHRemoveHint(n, i) /\ UNCHANGED NotHints
    \/ NewHintedHandoff /\ UNCHANGED NotHints

SpecHintsRemove == InitHints /\ [][HintRemoveNext]_vars

(***************************************************************************)
(*                              PROPERTIES                                 *)
(***************************************************************************)

\* C1: after any sequence of puts and deletes (with flushes at any points) and
\* a close and reopen of the engine, get(k) returns the value of the last
\* put(k, v), or not-found if a delete(k) came later or k was never put.
C1_ReopenedGetReturnsLastMutation ==
    (lastGet /= NoGet /\ reopened) => lastGet.value = expect[lastGet.key]

\* C2: the newest mutation of a key decides the result of get: the value of
\* the last put, and not-found once delete(k) was applied with no later put,
\* even when an older value lives in the immutable memtable or a sorted table.
C2_NewestMutationDecidesGet ==
    lastGet /= NoGet => lastGet.value = expect[lastGet.key]

\* C3: in every reachable state, also while a flush and its WAL reset run
\* concurrently with the put/delete calls of other threads, each mutation
\* visible in the active memtable has a corresponding entry in the WAL.
C3_WALPrecedesMemory ==
    phase = "open" =>
        \A k \in Keys : memTable.data[k] /= NONE =>
            \E i \in 1..Len(wal) :
                /\ wal[i].Key = k
                /\ \/ wal[i].Op = OpPut /\ wal[i].Value = memTable.data[k]
                   \/ wal[i].Op = OpDelete /\ memTable.data[k] = TOMBSTONE

\* C4: for every term and every cluster size, at most one node is ever in the
\* Leader state with that term.
C4_OneLeaderPerTerm ==
    \A x \in leaders, y \in leaders : x[2] = y[2] => x[1] = y[1]

\* C5: coordinator Put and Delete return success if and only if at least
\* W = 2 replicas answered with success, and a quorum-failure error otherwise,
\* whatever the order in which the replica results arrive.
C5_WriteSucceedsIffQuorumAcked ==
    lastOp.kind \in {"put", "delete"} =>
        /\ lastOp.ok <=> Cardinality(lastOp.acks) >= 2
        /\ lastOp.ok => lastOp.err = NIL
        /\ ~lastOp.ok => lastOp.err \in {"write quorum not reached",
                                         "delete quorum not reached"}

\* a Put succeeded on exactly two acknowledgements, a third replica failing
C5_Witness ==
    /\ lastOp.kind = "put"
    /\ lastOp.ok
    /\ Cardinality(lastOp.acks) = 2

C7_GetReturnsLastSuccessfulPut ==
    (lastOp.kind = "get" /\ lastOp.ok /\ lastWrite.kind = "put" /\ lastWrite.ok)
        => lastOp.value = lastWrite.value

LexLessEq(a, b) ==
    \/ a.Timestamp < b.Timestamp
    \/ a.Timestamp = b.Timestamp /\ a.Version <= b.Version

StrictlyOlder(a, b) ==
    \/ a.Timestamp < b.Timestamp
    \/ a.Timestamp = b.Timestamp /\ a.Version < b.Version

\* C8: for any non-empty list of responses, in any order, ResolveConflict
\* returns a response of the list whose (timestamp, version) is the
\* lexicographic maximum, and coordinator Get returns the value of such a
\* response.
C8_ResolveConflictIsLexMax ==
    /\ latest /= NoResponse =>
           /\ \E i \in 1..Len(responses) : responses[i] = latest
           /\ \A j \in 1..Len(responses) : LexLessEq(responses[j], latest)
    /\ (got /= NoGot /\ got.res.ok) =>
           \E i \in 1..Len(responses) :
               /\ responses[i].Value = got.res.value
               /\ \A j \in 1..Len(responses) : LexLessEq(responses[j], responses[i])

\* the winner is the last of three responses: it beats the first on the version
\* alone, and the second on the timestamp although its version is not greater
C8_Witness ==
    /\ Len(responses) = 3
    /\ latest = responses[3]
    /\ responses[1].Timestamp = latest.Timestamp
    /\ responses[1].Version < latest.Version
    /\ responses[2].Timestamp < latest.Timestamp
    /\ responses[2].Version >= latest.Version
    /\ got /= NoGot
    /\ got.res.ok
    /\ got.res.value = latest.Value

\* C9: the read-repair writes of a Get go to exactly the found responders
\* whose (timestamp, version) is strictly older than the winner's, each
\* carries the winner's value, timestamp and version, and there is none when
\* all found responses carry the same timestamp and version.
C9_RepairTargetsStrictlyOlder ==
    (got /= NoGot /\ got.res.ok) =>
        LET winner == got.res.latest IN
        /\ got.writes =
               {[to |-> responses[i].NodeID, Key |-> CoordKey,
                 Value |-> winner.Value, Timestamp |-> winner.Timestamp,
                 Version |-> winner.Version] :
                   i \in {j \in 1..Len(responses) :
                             StrictlyOlder(responses[j], winner)}}
        /\ (\A i, j \in 1..Len(responses) :
                /\ responses[i].Timestamp = responses[j].Timestamp
                /\ responses[i].Version = responses[j].Version)
               => got.writes = {}

\* a repair write to a responder that has the winner's timestamp and a lower
\* version, while another responder is as new as the winner
C9_Witness ==
    /\ got /= NoGot
    /\ got.res.ok
    /\ Cardinality(got.writes) = 1
    /\ \E w \in got.writes : \E i, j \in 1..Len(responses) :
           /\ responses[i].NodeID = w.to
           /\ responses[i].Timestamp = w.Timestamp
           /\ responses[i].Version < w.Version
           /\ responses[j].NodeID /= got.res.latest.NodeID
           /\ responses[j].Timestamp = w.Timestamp
           /\ responses[j].Version = w.Version

\* C10: after a coordinator Put, every replica whose write failed, by an
\* error, a timeout or an explicit success = false reply, has a hint with
\* this Put's key, value, timestamp and version, and no acknowledging replica
\* has one.
C10_HintForEveryFailedReplica ==
    lastOp.kind = "put" =>
        LET hint(r) == Hint(r, lastOp.key, lastOp.value, lastOp.timestamp,
                            lastOp.version)
            hinted(r) == \E i \in 1..Len(hints[r]) : hints[r][i] = hint(r) IN
        \A r \in Replicas : hinted(r) <=> r \notin lastOp.acks

\* C11: when no replica of the preference list reports the key as found,
\* coordinator Get returns the not-found error, which differs from the
\* quorum-failure error.
C11_NotFoundWhenNoReplicaHasKey ==
    (lastOp.kind = "get" /\ lastOp.acks = {}) =>
        /\ ~lastOp.ok
        /\ lastOp.err = "key not found"
        /\ lastOp.err /= "read quorum not reached"

\* the RequestVote request m is handled in this step, and the answer returned
\* to its caller
Handled(m)  == m \in voteReqs /\ m \notin voteReqs'
Answer(m)   == CHOOSE r \in voteResps' \ voteResps :
                   r.from = m.to /\ r.to = m.from /\ r.reqTerm = m.term

\* C12: a node grants its vote to at most one distinct candidate per term:
\* after granting RequestVote to candidate A in term t it denies every
\* RequestVote of another candidate B with term t, and grants a repeated
\* request of A in term t again.
C12_OneVotePerTerm ==
    [][\A m \in voteReqs : Handled(m) =>
          /\ (\E g \in votes : g.to = m.to /\ g.term = m.term /\ g.from /= m.from)
                => ~Answer(m).voteGranted
          /\ (m \in votes /\ currentTerm[m.to] = m.term) => Answer(m).voteGranted
          /\ \A g, h \in votes' :
                (g.to = h.to /\ g.term = h.term) => g.from = h.from]_vars

\* the node granted its vote to one peer and has just denied the request of
\* the other peer for the same term
C12_Witness ==
    \E g \in votes, r \in voteResps :
        /\ r.from = g.to /\ r.reqTerm = g.term /\ r.term = g.term
        /\ r.to /= g.from
        /\ ~r.voteGranted
        /\ votedFor[g.to] = g.from

\* C13: a RequestVote with a term below currentTerm is denied; one with a term
\* >= currentTerm is granted iff (votedFor for that term is empty or is the
\* candidate) and the candidate's log is at least as up to date (greater last
\* term, or equal last term and last index >= the node's).
C13_VoteGrantedIffEligible ==
    [][\A m \in voteReqs : Handled(m) =>
          LET i        == m.to
              voted    == IF m.term > currentTerm[i] THEN "" ELSE votedFor[i]
              upToDate == \/ m.lastLogTerm > LastLogTerm(i)
                          \/ /\ m.lastLogTerm = LastLogTerm(i)
                             /\ m.lastLogIndex >= LastLogIndex(i) IN
          IF m.term < currentTerm[i]
          THEN ~Answer(m).voteGranted
          ELSE Answer(m).voteGranted <=>
                   ((voted = "" \/ voted = m.from) /\ upToDate)]_vars

\* a node that has not voted in the request's term refused the vote because
\* the candidate's last log term is older than its own
C13_Witness ==
    \E r \in voteResps :
        /\ r.from = Voter /\ ~r.voteGranted /\ r.term = r.reqTerm
        /\ votedFor[Voter] = ""
        /\ currentTerm[Voter] = r.reqTerm
        /\ LastLogIndex(Voter) = 1 /\ LastLogTerm(Voter) = MaxTerm

\* node i adopted the higher term t in this step: new term, Follower, and no
\* vote other than one given to candidate c for the new term
Adopted(i, t, c) ==
    /\ currentTerm'[i] = t
    /\ state'[i] = Follower
    /\ votedFor'[i] = "" \/ votedFor'[i] = c

\* C14: a node in any role that sees a term greater than its currentTerm in a
\* RequestVote or AppendEntries request, or in the response to one of its own
\* RPCs, sets currentTerm to that term, becomes Follower and drops its vote of
\* the older term; a node's currentTerm never decreases.
C14_HigherTermMakesFollower ==
    [][/\ \A i \in Nodes : currentTerm'[i] >= currentTerm[i]
       /\ \A m \in voteReqs :
             (m \notin voteReqs' /\ m.term > currentTerm[m.to])
                => Adopted(m.to, m.term, m.from)
       /\ \A m \in appendReqs :
             (m \notin appendReqs' /\ m.term > currentTerm[m.to])
                => Adopted(m.to, m.term, "")
       /\ \A m \in voteResps :
             (m \notin voteResps' /\ m.term > currentTerm[m.to])
                => Adopted(m.to, m.term, "")
       /\ \A m \in appendResps :
             (m \notin appendResps' /\ m.term > currentTerm[m.to])
                => Adopted(m.to, m.term, "")]_vars

\* a leader has met a higher term: it is Follower of that term and its
\* vote of the older term, given to itself, is gone
C14_Witness ==
    \E l \in leaders :
        /\ state[l[1]] = Follower
        /\ currentTerm[l[1]] > l[2]
        /\ votedFor[l[1]] /= l[1]

\* C15: a node started with an empty peer list is Leader once its first
\* election timeout has been handled (startElection for term 1 has returned),
\* its own vote being a majority.
C15_SingleNodeBecomesLeader ==
    \A i \in Nodes :
        (peers[i] = {} /\ <<i, 1>> \in started /\ election[i] = NoElection)
            => state[i] = Leader

\* the leader l was shut down after every peer had accepted its heartbeats:
\* none of them is still in flight and no peer has seen another term
EstablishedLeaderGone(l) ==
    /\ l \in down
    /\ state[l] = Leader
    /\ \A m \in appendReqs : m.from /= l
    /\ \A p \in peers[l] : currentTerm[p] = currentTerm[l]

\* a remaining node has become leader of a term above that of l
NewLeaderAfter(l) ==
    \E n \in leaders : n[1] \notin down /\ n[2] > currentTerm[l]

\* a remaining node can still start or finish an election: its event loop
\* waits on a running election timer, or will after its heartbeat timer has
\* fired, or it is inside startElection, or a vote RPC is still in flight
ElectionStillPossible ==
    \/ \E n \in Nodes \ down :
          \/ timers[n].election = Armed
          \/ timers[n].heartbeat
          \/ election[n] /= NoElection
    \/ voteReqs /= {}
    \/ voteResps /= {}

\* C17: in a 3-node cluster, after an established leader that has been
\* sending heartbeats shuts down, the two remaining nodes eventually elect a
\* new leader at a strictly greater term; so in every state after the
\* shutdown either that leader has been elected or an election can still
\* take place.
C17_NewLeaderAfterShutdown ==
    \A l \in Nodes :
        EstablishedLeaderGone(l) => NewLeaderAfter(l) \/ ElectionStillPossible

\* exactly one node is Leader and all nodes report the same term
OneLeaderSameTerm ==
    /\ Cardinality({n \in Nodes : state[n] = Leader}) = 1
    /\ \A i, j \in Nodes : currentTerm[i] = currentTerm[j]

AddUndone ==
    /\ lastCall.kind = "RemoveNode"
    /\ prior /= NoPrior
    /\ prior.id = lastCall.id

\* C18: adding a physical node that is not in the ring and then removing that
\* same node restores the ring exactly: the same set of physical nodes, the
\* same position-to-owner map and the same sorted position sequence as before
\* the add, whatever positions the virtual nodes hash to.
C18_AddThenRemoveRestoresRing ==
    AddUndone =>
        /\ nodes = prior.nodes
        /\ ring = prior.ring
        /\ sortedHashes = prior.sortedHashes

NoDuplicates(list) == \A i, j \in 1..Len(list) : i /= j => list[i] /= list[j]

\* C19: on a ring with at least one physical node, after any sequence of
\* AddNode and RemoveNode calls, GetPreferenceList(key, n) terminates and
\* returns exactly min(n, number of physical nodes) node ids, without
\* duplicates, each of them a physical node of the ring.
C19_PreferenceListIsMinDistinctNodes ==
    (lastCall.kind = "GetPreferenceList" /\ lastCall.size > 0) =>
        /\ lastCall.returns
        /\ lastCall.err = ""
        /\ Len(lastCall.list) = IF lastCall.n < lastCall.size THEN lastCall.n ELSE lastCall.size
        /\ NoDuplicates(lastCall.list)
        /\ \A i \in 1..Len(lastCall.list) : lastCall.list[i] \in nodes

\* the positions of the virtual nodes of the physical nodes of the ring
RingPositions ==
    {vnodeHash[<<nodeID, i>>] : nodeID \in nodes, i \in 0..(virtualNodes - 1)}

\* the first ring position at or after hash, the smallest one when there is none
FirstPosition(hash) ==
    LET after == {p \in RingPositions : p >= hash}
        from  == IF after = {} THEN RingPositions ELSE after
    IN  CHOOSE p \in from : \A q \in from : p <= q

\* the physical nodes of the ring with a virtual node at position p
OwnersAt(p) ==
    {nodeID \in nodes : \E i \in 0..(virtualNodes - 1) : vnodeHash[<<nodeID, i>>] = p}

\* C20: GetNode(key) returns the node owning the first ring position at or
\* after hash(key), wrapping to the smallest position, and an error on a ring
\* without nodes; the first element of GetPreferenceList(key, n), n >= 1, on
\* a ring with nodes is the node GetNode(key) returns.
C20_GetNodeIsFirstOwnerClockwise ==
    /\ lastCall.kind = "GetNode" =>
          IF nodes = {}
          THEN lastCall.err = ErrNoNodes
          ELSE /\ lastCall.err = ""
               /\ lastCall.node \in OwnersAt(FirstPosition(lastCall.hash))
    /\ (lastCall.kind = "GetPreferenceList" /\ lastCall.n >= 1 /\ lastCall.size > 0) =>
          /\ lastCall.list /= <<>>
          /\ lastCall.list[1] = GetNodeResult(lastCall.hash).node
          /\ lastCall.list[1] \in OwnersAt(FirstPosition(lastCall.hash))

\* C21: removing a node from the ring changes the routing only of the keys
\* that were routed to it: a key whose GetNode result was another node has
\* the same GetNode result after RemoveNode, and no key is routed to the
\* removed node afterwards.
C21_RemoveNodeMovesOnlyItsKeys ==
    [][(lastCall'.kind = "RemoveNode") =>
          \A hash \in Positions :
             /\ GetNodeResult(hash).node /= lastCall'.id =>
                   GetNodeResult(hash)' = GetNodeResult(hash)
             /\ GetNodeResult(hash)'.node /= lastCall'.id]_vars

\* RemoveNode has just removed the node added last from a ring with two
\* virtual nodes per node: a key at a position of the removed node is now
\* routed to the node that is left
C21_Witness ==
    /\ AddUndone
    /\ virtualNodes = 2
    /\ prior.nodes /= {}
    /\ \E hash \in Positions :
          /\ \E i \in 0..(virtualNodes - 1) : vnodeHash[<<prior.id, i>>] = hash
          /\ GetNodeResult(hash).node \in nodes

\* C22: once a sorted-table file is finalized no later operation writes to
\* it: a step changes a finalized file only by deleting it, and every flush
\* and every compaction, also after a close and reopen, writes its output
\* under a table id that no file, existing or deleted, was finalized under.
C22_FinalizedFilesNeverRewritten ==
    [][\A i \in TableIDs :
          /\ i \in finalized => files'[i] = files[i] \/ files'[i] = NoFile
          /\ (files'[i] /= files[i] /\ files'[i] /= NoFile) => i \notin finalized]_vars

\* the engine was reopened on a directory where a compaction had deleted its
\* input file, and a compaction since the reopen has finalized a further file
C22_Witness ==
    /\ reopened
    /\ compaction.pc = "swap"
    /\ files[compaction.newTableID] /= NoFile
    /\ \E i \in finalized : i < compaction.newTableID /\ files[i] = NoFile


\* C23: when flushToDisk fails, the WAL holds the entries it held and the active
\* memtable is the memtable, with its contents, that was active before maybeFlush
\* sealed it
C23_FlushFailureKeepsWALAndMemTable ==
    [][(~flushErr.failed /\ flushErr'.failed) =>
          /\ wal' = flushErr.wal
          /\ memTable' = flushErr.memTable]_vars


C25_CompactionKeepsGet ==
    [][(compaction.pc /= "idle" \/ compaction'.pc /= "idle") =>
          \A k \in Keys : LSMGet(k)' = LSMGet(k)]_vars

\* a compaction has swapped in the merge of two tables where one key has a value
\* in the newer table and another version in the older one, and another key has
\* a tombstone in the newer table and a value in the older one
C25_Witness ==
    /\ compaction.pc = "unlink"
    /\ Len(compaction.tables) = 2
    /\ LET new == files[compaction.tables[1].id]
           old == files[compaction.tables[2].id]
       IN  /\ \E k \in Keys : new[k] \in Values /\ old[k] /= NONE /\ old[k] /= new[k]
           /\ \E k \in Keys : new[k] = TOMBSTONE /\ old[k] \in Values


\* C26: a Get that overlaps a compaction returns without error the value the
\* store held when the Get took its copy of the table list, whether the copy
\* is the list before or after the swap and whether or not the files of the
\* copied tables have been unlinked since
C26_GetDuringCompactionIsCorrect ==
    reading.pc = "done" =>
        /\ reading.value /= IOERROR
        /\ reading.value = reading.atomic

\* C27: after Write of distinct keys in ascending order, Finalize and
\* OpenSSTable, the Bloom filter read back may-contain every written key, and
\* Get returns found with the written value (the tombstone bytes included) for
\* a written key and not found for any other key
C27_WriteOpenGetRoundTrip ==
    /\ (sstReader /= NoTable) =>
          /\ ~sstReader.err
          /\ \A i \in 1..Len(sstEntries) :
                sstReader.bloomFilter /= NoBloom
                /\ MayContain(sstReader.bloomFilter, sstEntries[i][1])
    /\ (sstGot /= NoGet) =>
          IF \E i \in 1..Len(sstEntries) : sstEntries[i][1] = sstGot.key
          THEN \E i \in 1..Len(sstEntries) :
                  /\ sstEntries[i][1] = sstGot.key
                  /\ sstGot.found
                  /\ sstGot.value = sstEntries[i][2]
          ELSE ~sstGot.found

\* Get has returned the tombstone bytes as found, from a table of two entries
\* whose Bloom filter may-contains a key that was not written and excludes
\* another key
C27_Witness ==
    /\ sstGot /= NoGet
    /\ Len(sstEntries) = 2
    /\ sstGot.found
    /\ sstGot.value = TombstoneBytes
    /\ sstGot.key = sstEntries[2][1]
    /\ \E k \in SSTKeys :
          /\ \A i \in 1..Len(sstEntries) : sstEntries[i][1] /= k
          /\ MayContain(sstReader.bloomFilter, k)
    /\ \E k \in SSTKeys : ~MayContain(sstReader.bloomFilter, k)

\* C28: ReadAll returns without error exactly the entries written since the
\* last Reset (all entries written when there was none), in the order of the
\* writes, each with its timestamp, operation, key and value
C28_ReadAllReturnsWrittenEntries ==
    (walRead /= NoGet) => walRead = [entries |-> walLog, err |-> FALSE]

\* ReadAll after a Reset that cut off two entries has returned two entries
\* that differ in timestamp, operation, key and value
C28_Witness ==
    /\ walRead /= NoGet
    /\ Len(walResets.cut) = 2
    /\ Len(walRead.entries) = 2
    /\ walRead.entries[1].Timestamp /= walRead.entries[2].Timestamp
    /\ walRead.entries[1].Op /= walRead.entries[2].Op
    /\ walRead.entries[1].Key /= walRead.entries[2].Key
    /\ walRead.entries[1].Value /= walRead.entries[2].Value

\* C29: when the file ends with the first bytes of a record, cut at any byte,
\* ReadAll returns the complete records before it and no error
C29_TornRecordIsTruncation ==
    (walRead /= NoGet) => (~walRead.err /\ walRead.entries = walLog)

\* C30: StoreHint for a target that holds maxHints hints returns the capacity
\* error and changes neither the target's list nor its hints file; StoreHint
\* returns no list longer than maxHints, in whatever order the calls of
\* concurrent callers take hh.mu
C30_StoreHintRespectsCapacity ==
    [][(hhLast'.kind = "StoreHint") =>
          /\ (Len(hhHints[hhLast'.node]) >= hhMax) =>
                /\ hhLast'.err
                /\ hhHints' = hhHints
                /\ hintFiles' = hintFiles
          /\ (Len(hhHints[hhLast'.node]) < hhMax) => ~hhLast'.err
          /\ \A n \in HintTargets : Len(hhHints'[n]) <= hhMax]_vars

\* StoreHint has returned the capacity error for a target that holds two
\* hints, both in its hints file, while maxHints is two
C30_Witness ==
    /\ hhLast.kind = "StoreHint"
    /\ hhLast.err
    /\ hhMax = 2
    /\ Len(hhHints[hhLast.node]) = 2
    /\ hintFiles[hhLast.node] = [hints |-> hhHints[hhLast.node]]

C40_RemovedHintStaysRemoved ==
    [][(hhLast.kind = "RemoveHint" /\ hhLast.removed /\ hhLast'.kind = "NewHintedHandoff") =>
          hhHints'[hhLast.node] = hhHints[hhLast.node]]_vars

\* C32: when a flush and a compaction overlap, the sorted table the flush
\* produced is still in the sorted-table list once both have finished: while
\* the engine is open and neither a compaction nor a write is in progress,
\* every finalized table whose file exists is a table of the list.
C32_FlushedTableStaysListed ==
    (phase = "open" /\ compaction = NoCompaction /\ NoWriter) =>
        \A i \in finalized :
            (files[i] /= NoFile /\ files[i] /= PartialFile) =>
                \E j \in 1..Len(sstables) : sstables[j].id = i

\* a finalized table of the list holds the value v for k
InListedTable(k, v) ==
    \E j \in 1..Len(sstables) :
        LET f == files[sstables[j].id] IN
        IF f = NoFile \/ f = PartialFile THEN FALSE ELSE f[k] = v

\* C33: a value written by put to the WAL and the memtable is never dropped
\* from memory and truncated from the WAL without being in a finalized table
\* of the list, across flushes of which some fail and later ones succeed: the
\* value last put for a key is in the active or the immutable memtable, in a
\* put entry of the WAL, or in a finalized table of the list.
C33_FailedFlushLosesNothing ==
    phase = "open" =>
        \A k \in Keys : expect[k] /= NONE =>
            \/ memTable.data[k] = expect[k]
            \/ IF immutableTable = NoTable THEN FALSE
               ELSE immutableTable.data[k] = expect[k]
            \/ \E i \in 1..Len(wal) : wal[i] = PutEntry(k, expect[k])
            \/ InListedTable(k, expect[k])

\* C34: for concurrent put and delete calls on the same key, the order of the
\* entries in the WAL equals the order in which they are applied to the
\* memtable, so that replaying the WAL yields the final value the running
\* engine holds: while no call is in progress and no flush has yet sealed a
\* memtable, the replay of the WAL gives every key the entry of the memtable.
C34_ReplayYieldsMemTableValue ==
    (phase = "open" /\ nextTableID = 0 /\ \A t \in Threads : pc[t] = "idle") =>
        \A k \in Keys : Recover(NewMemTable, wal, 1).data[k] = memTable.data[k]

\* C35: a node enters the Leader state for term t only if it is still
\* Candidate with currentTerm = t and has counted granted votes, its own
\* included, from more than half of all nodes of the cluster, whatever the
\* cluster size: every step that makes a node Leader is taken by a candidate of
\* the election's term whose votes, with the one just counted, are a majority.
C35_LeaderOnlyWithMajority ==
    [][\A i \in Nodes :
          (state'[i] = Leader /\ state[i] /= Leader) =>
              /\ state[i] = Candidate
              /\ election[i] /= NoElection
              /\ currentTerm[i] = election[i].term
              /\ <<i, election[i].term>> \in leaders'
              /\ 2 * (election[i].votesReceived + 1) > Cardinality(Nodes)]_vars

\* C36: after the election timer was re-armed from an RPC handler goroutine
\* (vote granted, AppendEntries accepted, step down), the event loop reacts to
\* the expiry of the re-armed timer, so that the node starts an election if no
\* further RPC arrives: a running node's loop never waits on a replaced
\* election timer while no other timer of the node is there to wake it up.
C36_LoopWaitsOnRearmedTimer ==
    \A i \in Nodes :
        (i \notin down /\ timers[i].election = Stale) => timers[i].heartbeat

\* the version of k in the existing table file with the highest numeric id
\* (a tombstone is not-found)
HighestIDVersion(k) ==
    LET ids == {i \in DOMAIN files : files[i] /= NoFile /\ files[i][k] /= NONE} IN
    IF ids = {} THEN NONE
    ELSE LET top == CHOOSE i \in ids : \A j \in ids : j <= i IN
         IF files[top][k] = TOMBSTONE THEN NONE ELSE files[top][k]

\* C37: after open(dataDir) the sorted-table list is ordered newest-first by
\* numeric table id for any set of table ids in the directory, ids 9 and 10
\* included, so that get returns the version of the key from the table with the
\* highest id that contains it.
C37_ListNewestFirstByID ==
    (phase = "open" /\ reopened) =>
        /\ \A j \in 1..(Len(sstables) - 1) : sstables[j].id > sstables[j + 1].id
        /\ lastGet /= NoGet => lastGet.value = HighestIDVersion(lastGet.key)

\* C38: close() on an engine whose active memtable is not empty writes the
\* memtable's entries to a new sorted table and resets the WAL before the WAL
\* is closed, whatever the memtable's size: every Close step taken with a
\* non-empty memtable adds a table with the memtable's entries to the front of
\* the list and leaves the WAL empty.
C38_CloseFlushesMemTable ==
    [][(phase = "open" /\ phase' = "closed" /\ memTable.size > 0) =>
          /\ Len(sstables') = Len(sstables) + 1
          /\ files'[sstables'[1].id] = MemTableIterator(memTable)
          /\ wal' = <<>>]_vars

\* C39: every completed compaction, started by the periodic check or by
\* ForceCompact, increases the total-compactions counter by exactly one and
\* adds the number of dropped tombstone keys to keys-removed and the reclaimed
\* bytes (size of the input entries minus size of the output entries) to
\* bytes-reclaimed.
C39_CompletedCompactionCounted ==
    [][(compaction.pc = "unlink" /\ compaction'.pc = "idle") =>
          LET tables  == compaction.tables
              output  == files[compaction.newTableID]
              dropped == {k \in Keys : /\ \E i \in 1..Len(tables) : k \in tables[i].index
                                       /\ output[k] = NONE}
          IN  /\ cm'.stats.TotalCompactions = cm.stats.TotalCompactions + 1
              /\ cm'.stats.TotalKeysRemoved =
                     cm.stats.TotalKeysRemoved + Cardinality(dropped)
              /\ cm'.stats.TotalBytesReclaimed =
                     cm.stats.TotalBytesReclaimed
                         + TotalOriginalSize(tables, 1) - EntriesSize(output, Keys)]_vars

============================================================================
